---- MODULE Spec2Model ----
(***************************************************************************)
(* A model of molt's lockfile engine.                                      *)
(*                                                                         *)
(*   - writeToLockfile (src/core/lockfile.ts): the merge of the updated    *)
(*     partial lock of each dependency of a batch into the lockfile, and   *)
(*     the serialisation of the result;                                    *)
(*   - createLock (src/unnamed/part_010): the recursive construction of a  *)
(*     partial lock for a registry package;                                *)
(*   - increase (src/unnamed/part_000): the constraint raised to admit a   *)
(*     version;                                                            *)
(*   - getUpdate (src/core/updates.ts): the versions a registry or an      *)
(*     origin offers;                                                      *)
(*   - parse, stringify (src/unnamed/part_001), identify, identical        *)
(*     (src/core/dependencies.ts) and extract (src/unnamed/part_010).      *)
(*                                                                         *)
(* Each part has its own specification (SpecMerge, SpecEol, SpecLock,      *)
(* SpecRerun, SpecIncrease, SpecUpdate, SpecParse, SpecIdentity,           *)
(* SpecExtract) over the same variables; the variables of the other parts  *)
(* stay idle.                                                              *)
(***************************************************************************)
EXTENDS Integers, Sequences, FiniteSets, TLC

VARIABLES
  \* ---- writeToLockfile ----
  disk,      \* the lockfile on disk: its line terminators, data and key order
  update,    \* the FileUpdate<"lockfile"> passed to writeToLockfile
  EOL,       \* @std/fs/eol EOL: the end-of-line of the platform
  wpc,       \* position of writeToLockfile: "start", "merging", "written", "failed"
  content,   \* the text read at line 253 (its line terminators)
  original,  \* the parsed lockfile being merged in memory
  idx,       \* index of the next element of update.dependencies
  prev,      \* history: `original` before the last merge
  patch,     \* history: the patch of the last merge (createLockPart's result)
  focus,     \* the namespace (jsr, npm, remote) the explored inputs populate
  \* ---- createLock ----
  registry,  \* what the registries answer (fixed during a call)
  call,      \* the arguments of createLock: [dependency, target]
  lockfile,  \* the Lockfile object under construction
  stack,     \* the activation records of insertPackage, innermost last
  cpc,       \* position of createLock: "start", "running", "returned", "failed"
  fetched,   \* history: the resolved packages and modules fetched, in order
  runs,      \* history: the calls of createLock that ended, with their results
  \* ---- increase ----
  inc,       \* a call of increase: [constraint, version, pc, result]
  \* ---- getUpdate ----
  lookup,    \* a call of getUpdate: [dependency, pc, result]
  \* ---- parse, stringify, identify, extract ----
  app        \* an application of one of them: its arguments, pc and result

mvars == <<disk, update, EOL, wpc, content, original, idx, prev, patch, focus>>
lvars == <<registry, call, lockfile, stack, cpc, fetched, runs>>
ivars == <<inc, lookup, app>>
vars == <<mvars, lvars, ivars>>

(***************************************************************************)
(* Bounds of the model.                                                    *)
(***************************************************************************)
MaxBatch == 2   \* length of update.dependencies
MaxParts == 2   \* length of update.locks
MaxEdges == 2   \* dependency edges a registry declares for one package
MaxDepth == 5   \* nesting of insertPackage calls that is followed
MaxNum == 2     \* the major, minor and patch numbers of the versions explored

(***************************************************************************)
(* Strings.  TLA+ strings are opaque, so the strings whose order matters   *)
(* are spelled out, and their characters carry their UTF-16 code units.    *)
(***************************************************************************)
Code ==
  [c \in {" ", "+", ",", "1", "2", ":", "@", "O", "[", "]", "^", "a", "b",
          "c", "e", "j", "n", "o", "p", "q", "r", "s", "t"} |->
     CASE c = " " -> 32 [] c = "+" -> 43 [] c = "," -> 44 [] c = "1" -> 49
       [] c = "2" -> 50 [] c = ":" -> 58 [] c = "@" -> 64 [] c = "O" -> 79
       [] c = "[" -> 91 [] c = "]" -> 93 [] c = "^" -> 94 [] c = "a" -> 97
       [] c = "b" -> 98 [] c = "c" -> 99 [] c = "e" -> 101 [] c = "j" -> 106
       [] c = "n" -> 110 [] c = "o" -> 111 [] c = "p" -> 112 [] c = "q" -> 113
       [] c = "r" -> 114 [] c = "s" -> 115 [] c = "t" -> 116]

Chars(s) ==
  CASE s = "p@1" -> <<"p", "@", "1">>
    [] s = "p@1+b" -> <<"p", "@", "1", "+", "b">>
    [] s = "q@1" -> <<"q", "@", "1">>
    [] s = "jsr:a@^1" -> <<"j", "s", "r", ":", "a", "@", "^", "1">>
    [] s = "jsr:b@^1" -> <<"j", "s", "r", ":", "b", "@", "^", "1">>
    [] s = "jsr:a@1" -> <<"j", "s", "r", ":", "a", "@", "1">>
    [] s = "jsr:a@2" -> <<"j", "s", "r", ":", "a", "@", "2">>
    [] s = "jsr:b@1" -> <<"j", "s", "r", ":", "b", "@", "1">>
    [] s = "jsr:b@2" -> <<"j", "s", "r", ":", "b", "@", "2">>
    [] s = "s1" -> <<"s", "1">>
    [] s = "s2" -> <<"s", "2">>
    [] s = "[object Object]" ->
         <<"[", "o", "b", "j", "e", "c", "t", " ", "O", "b", "j", "e", "c", "t", "]">>

CodeUnits(s) == [i \in DOMAIN Chars(s) |-> Code[Chars(s)[i]]]

\* The order of JavaScript strings: lexicographic on UTF-16 code units.
RECURSIVE UnitsLess(_, _)
UnitsLess(a, b) ==
  IF b = <<>> THEN FALSE
  ELSE IF a = <<>> THEN TRUE
  ELSE IF Head(a) # Head(b) THEN Head(a) < Head(b)
  ELSE UnitsLess(Tail(a), Tail(b))

StringLess(s, t) == UnitsLess(CodeUnits(s), CodeUnits(t))

(***************************************************************************)
(* Records of string keys (JavaScript objects) are functions.              *)
(***************************************************************************)
EmptyRecord == [k \in {} |-> ""]
Keys(rec) == DOMAIN rec

\* An optional property holding a record.
Some(rec) == [has |-> TRUE, rec |-> rec]
None == [has |-> FALSE, rec |-> EmptyRecord]
\* `opt ?? {}`
OrEmpty(opt) == IF opt.has THEN opt.rec ELSE EmptyRecord

(***************************************************************************)
(* LockFileJson (src/core/lockfile.ts:18-39).  `packages` is optional:     *)
(* hasPackages tells whether it is there; jsr, npm and remote are optional *)
(* records.  A jsr entry is [integrity, dependencies: array]; an npm entry *)
(* is [integrity, dependencies: record]; a remote entry is a hash string.  *)
(***************************************************************************)
Namespaces == {"jsr", "npm", "remote"}

LockFileJson(version, hasPackages, specifiers, jsr, npm, remote, workspace) ==
  [version |-> version, hasPackages |-> hasPackages, specifiers |-> specifiers,
   jsr |-> jsr, npm |-> npm, remote |-> remote, workspace |-> workspace]

\* `data.packages?.jsr`, `data.packages?.npm`, `data.remote`
Section(data, ns) ==
  CASE ns = "jsr" -> IF data.hasPackages THEN data.jsr ELSE None
    [] ns = "npm" -> IF data.hasPackages THEN data.npm ELSE None
    [] ns = "remote" -> data.remote

Specifiers(data) == IF data.hasPackages THEN data.specifiers ELSE EmptyRecord

(***************************************************************************)
(* @std/collections, as writeToLockfile uses it.                           *)
(***************************************************************************)
\* omit(record, keys): the record without the given keys.
omit(record, keys) == [k \in Keys(record) \ keys |-> record[k]]

\* How deepMerge merges two values of one key, by the kind of the values.
RECURSIVE deepMerge(_, _, _)
MergeValue(kind, a, b) ==
  CASE kind = "string" -> b     \* no objects: the right value replaces the left
    \* A jsr entry, merged with { arrays: "replace" }.
    [] kind = "jsr" -> [integrity |-> b.integrity, dependencies |-> b.dependencies]
    \* An npm entry, merged with the default options: `dependencies` is a
    \* record and is merged key by key.
    [] kind = "npm" ->
         [integrity |-> b.integrity,
          dependencies |-> deepMerge(a.dependencies, b.dependencies, "string")]

\* deepMerge(record, other): every key of both; a key of `other` takes other's
\* value, merged with record's value when both have the key.
deepMerge(record, other, kind) ==
  [k \in Keys(record) \cup Keys(other) |->
     IF k \notin Keys(other) THEN record[k]
     ELSE IF k \notin Keys(record) THEN other[k]
     ELSE MergeValue(kind, record[k], other[k])]

(***************************************************************************)
(* createLockFileOmitKeys (src/core/lockfile.ts:322-349).                  *)
(***************************************************************************)
\* partition(locks, (it) => it.specifier === specifier)
Relevant(specifier, locks) ==
  SelectSeq(locks, LAMBDA it : it.specifier = specifier)
Others(specifier, locks) ==
  SelectSeq(locks, LAMBDA it : it.specifier # specifier)

\* The keys of namespace ns that some other part holds.
SharedKeys(others, ns) ==
  UNION {Keys(OrEmpty(Section(others[i].data, ns))) : i \in DOMAIN others}

\* A slip: the parts of the other dependencies are not consulted.
OmitKeysIgnoringOthers(own, others, ns) == Keys(OrEmpty(Section(own, ns)))
\* The keys of the dependency's own part that no other part holds.
OmitKeys(own, others, ns) ==
  {key \in Keys(OrEmpty(Section(own, ns))) : key \notin SharedKeys(others, ns)}

\* A variant that consults the parts of the dependencies not merged yet only.
createLockFileOmitKeysOfPending(specifier, locks) ==
  LET own == Relevant(specifier, locks)[1].data
      others == SelectSeq(Others(specifier, locks),
                          LAMBDA it : \A j \in 1..(idx - 1) :
                                        update.dependencies[j] # it.specifier)
  IN [ns \in Namespaces |-> OmitKeys(own, others, ns)]
\* Defined when Len(Relevant(specifier, locks)) = 1 (the assertEquals of line 330).
createLockFileOmitKeys(specifier, locks) ==
  LET own == Relevant(specifier, locks)[1].data
      others == Others(specifier, locks)
  IN [ns \in Namespaces |-> OmitKeys(own, others, ns)]

(***************************************************************************)
(* The body of the loop of writeToLockfile (src/core/lockfile.ts:274-298). *)
(***************************************************************************)
MergeSpecifiers(data, p) == deepMerge(data.specifiers, p.specifiers, "string")

\* A slip: the keys of the own part are not omitted before the merge.
MergeSectionWithoutOmit(section, omitKeys, p, kind) ==
  IF p.has THEN Some(deepMerge(OrEmpty(section), p.rec, kind)) ELSE section
\* A slip: the section of the patch is assigned, not merged.
MergeSectionAssigning(section, omitKeys, p, kind) == IF p.has THEN p ELSE section
\* `if (patch.x) original.x = deepMerge(omit(original.x ?? {}, omitter.x), patch.x)`
MergeSection(section, omitKeys, p, kind) ==
  IF p.has
  THEN Some(deepMerge(omit(OrEmpty(section), omitKeys), p.rec, kind))
  ELSE section

MergePackages(data, p, omitter) ==
  IF data.hasPackages /\ p.hasPackages
  THEN [data EXCEPT
          !.specifiers = MergeSpecifiers(data, p),
          !.jsr = MergeSection(data.jsr, omitter["jsr"], p.jsr, "jsr"),
          !.npm = MergeSection(data.npm, omitter["npm"], p.npm, "npm")]
  ELSE data

MergePatch(data, p, omitter) ==
  LET merged == MergePackages(data, p, omitter)
  IN [merged EXCEPT
        !.remote = MergeSection(merged.remote, omitter["remote"], p.remote, "string")]

(***************************************************************************)
(* The serialisation: JSON.stringify(original, replacer, 2) plus the end   *)
(* of line (src/core/lockfile.ts:300-313).                                 *)
(***************************************************************************)
\* String(value): a string is itself, any object is "[object Object]".
ValueString(kind, value) == IF kind = "string" THEN value ELSE "[object Object]"

\* Array.prototype.sort() without a comparator compares the elements as
\* strings; the element [key, value] becomes key + "," + String(value).
EntryUnits(rec, kind, key) ==
  CodeUnits(key) \o <<Code[","]>> \o CodeUnits(ValueString(kind, rec[key]))

EntryLess(rec, kind, k1, k2) ==
  UnitsLess(EntryUnits(rec, kind, k1), EntryUnits(rec, kind, k2))

\* Object.entries(value).sort(), as the sequence of the keys.
RECURSIVE SortEntries(_, _, _)
SortEntries(rec, kind, keys) ==
  IF keys = {} THEN <<>>
  ELSE LET first == CHOOSE k \in keys :
                      \A o \in keys \ {k} : ~EntryLess(rec, kind, o, k)
       IN <<first>> \o SortEntries(rec, kind, keys \ {first})

\* replacer: the key order of Object.fromEntries(Object.entries(value).sort()).
replacer(rec, kind) == SortEntries(rec, kind, Keys(rec))

\* The order in which the keys of the four sorted maps are written.
KeyOrder(data) ==
  [specifiers |-> replacer(Specifiers(data), "string"),
   jsr |-> replacer(OrEmpty(Section(data, "jsr")), "jsr"),
   npm |-> replacer(OrEmpty(Section(data, "npm")), "npm"),
   remote |-> replacer(OrEmpty(Section(data, "remote")), "string")]

\* The number of lines JSON.stringify(value, _, 2) prints for a property.
LinesOfArray(arr) == IF Len(arr) = 0 THEN 1 ELSE Len(arr) + 2
LinesOfStrings(rec) == IF Keys(rec) = {} THEN 1 ELSE Cardinality(Keys(rec)) + 2
LinesOfEntry(kind, entry) ==
  CASE kind = "string" -> 1
    [] kind = "jsr" -> 3 + LinesOfArray(entry.dependencies)
    [] kind = "npm" -> 3 + LinesOfStrings(entry.dependencies)

RECURSIVE SumLines(_, _, _)
SumLines(rec, kind, keys) ==
  IF keys = {} THEN 0
  ELSE LET k == CHOOSE x \in keys : TRUE
       IN LinesOfEntry(kind, rec[k]) + SumLines(rec, kind, keys \ {k})

LinesOfSection(opt, kind) ==
  IF ~opt.has THEN 0
  ELSE IF Keys(opt.rec) = {} THEN 1
  ELSE 2 + SumLines(opt.rec, kind, Keys(opt.rec))

NumLines(data) ==
  2 + 1
  + (IF data.hasPackages
     THEN 2 + LinesOfStrings(data.specifiers) + LinesOfSection(data.jsr, "jsr")
          + LinesOfSection(data.npm, "npm")
     ELSE 0)
  + LinesOfSection(data.remote, "string")
  + 2 + LinesOfArray(data.workspace)

\* detect (@std/fs/eol): CRLF if any line ends in CRLF, else LF if any line
\* ends at all, else null.
detectEOL(eols) ==
  IF \E i \in DOMAIN eols : eols[i] = "CRLF" THEN "CRLF"
  ELSE IF eols # <<>> THEN "LF"
  ELSE "null"

\* The line terminators of JSON.stringify(data, replacer, 2) + eol:
\* JSON.stringify separates its lines by "\n".
Stringify(data, eol) == [i \in 1..(NumLines(data) - 1) |-> "LF"] \o <<eol>>

(***************************************************************************)
(* The inputs of writeToLockfile that are explored.                        *)
(***************************************************************************)
SeqsUpTo(S, n) == UNION {[1..m -> S] : m \in 0..n}
NoRepeat(seq) == \A i, j \in DOMAIN seq : i # j => seq[i] # seq[j]

\* The specifiers of the dependencies, what they are locked to before the
\* update and what the updated partial lock resolves them to.
DepPool == {"jsr:a@^1", "jsr:b@^1"}
LockedId(specifier) == IF specifier = "jsr:a@^1" THEN "jsr:a@1" ELSE "jsr:b@1"
UpdatedId(specifier) == IF specifier = "jsr:a@^1" THEN "jsr:a@2" ELSE "jsr:b@2"

\* The keys of the populated namespace, and the one key of the two others.
Pool == {"p@1", "p@1+b"}
RestKey == "q@1"

KindOf(ns) == IF ns = "remote" THEN "string" ELSE ns

\* The value an entry has in the lockfile ("old") and in a patch ("new").
Hash(age) == IF age = "old" THEN "s1" ELSE "s2"
Entry(ns, age) ==
  CASE ns = "jsr" ->
         [integrity |-> Hash(age),
          dependencies |-> <<IF age = "old" THEN "jsr:c@^1" ELSE "jsr:c@^2">>]
    [] ns = "npm" ->
         [integrity |-> Hash(age),
          dependencies |-> [n \in {IF age = "old" THEN "c" ELSE "d"} |-> "^1"]]
    [] ns = "remote" -> Hash(age)
Fill(ns, keys, age) == [k \in keys |-> Entry(ns, age)]

\* The lockfile on disk: `keys` in the populated namespace, RestKey in the
\* two others.
DiskData(f, hasPackages, keys) ==
  LET sec(ns) == IF ns = f
                 THEN (IF keys = {} THEN None ELSE Some(Fill(ns, keys, "old")))
                 ELSE Some(Fill(ns, {RestKey}, "old"))
  IN LockFileJson("3", hasPackages,
                  IF hasPackages THEN [d \in DepPool |-> LockedId(d)] ELSE EmptyRecord,
                  IF hasPackages THEN sec("jsr") ELSE None,
                  IF hasPackages THEN sec("npm") ELSE None,
                  sec("remote"),
                  <<"jsr:a@^1", "jsr:b@^1">>)

\* The partial lock of a dependency before the update (an element of
\* update.locks), extracted from the lockfile on disk: `keys` in the
\* populated namespace; the part of jsr:a@^1 also holds RestKey in the two
\* others.
PartData(f, hasPackages, specifier, keys) ==
  LET sec(ns) == IF ns = f THEN Some(Fill(ns, keys, "old"))
                 ELSE IF specifier = "jsr:a@^1" THEN Some(Fill(ns, {RestKey}, "old"))
                 ELSE Some(EmptyRecord)
  IN LockFileJson("3", hasPackages,
                  IF hasPackages THEN [d \in {specifier} |-> LockedId(specifier)]
                  ELSE EmptyRecord,
                  IF hasPackages THEN sec("jsr") ELSE None,
                  IF hasPackages THEN sec("npm") ELSE None,
                  sec("remote"), <<specifier>>)
LockPart(f, hasPackages, specifier, keys) ==
  [specifier |-> specifier, data |-> PartData(f, hasPackages, specifier, keys)]

\* The updated partial lock createLockPart returns: `section` in the
\* populated namespace; of the others only `remote: {}`, which deno always
\* writes.
PatchData(f, specifier, hasPackages, section) ==
  LET sec(ns) == IF ns = f THEN section
                 ELSE IF ns = "remote" THEN Some(EmptyRecord) ELSE None
  IN LockFileJson("3", hasPackages,
                  IF hasPackages THEN [d \in {specifier} |-> UpdatedId(specifier)]
                  ELSE EmptyRecord,
                  IF hasPackages THEN sec("jsr") ELSE None,
                  IF hasPackages THEN sec("npm") ELSE None,
                  sec("remote"), <<specifier>>)
Patches(f, specifier) ==
  {PatchData(f, specifier, hp, section) :
     hp \in (IF f = "remote" THEN BOOLEAN ELSE {TRUE}),
     section \in {None} \cup {Some(Fill(f, keys, "new")) : keys \in SUBSET Pool}}
NoPatch == PatchData("jsr", "jsr:a@^1", FALSE, None)

\* The line terminators of a text of n lines.
Styles == {"lf", "crlf", "mixed", "none"}
InputEols(style, n) ==
  CASE style = "lf" -> [i \in 1..n |-> "LF"]
    [] style = "crlf" -> [i \in 1..n |-> "CRLF"]
    [] style = "mixed" -> [i \in 1..n |-> IF i = 1 THEN "CRLF" ELSE "LF"]
    [] style = "none" -> <<>>

DiskFile(data, style) ==
  [eols |-> InputEols(style, NumLines(data)), data |-> data, order |-> KeyOrder(data)]

(***************************************************************************)
(* writeToLockfile (src/core/lockfile.ts:250-304), one action per await.   *)
(***************************************************************************)
\* The createLock variables while writeToLockfile is explored.
LockIdle ==
  /\ registry = EmptyRecord
  /\ call = EmptyRecord
  /\ lockfile = EmptyRecord
  /\ stack = <<>>
  /\ cpc = "idle"
  /\ fetched = <<>>
  /\ runs = <<>>

\* increase is not called.
IncreaseIdle == inc = EmptyRecord
\* getUpdate is not called on its own.
UpdateIdle == lookup = EmptyRecord /\ app = EmptyRecord

InitMergeWith(styles, eols, batches, maxParts) ==
  /\ focus \in Namespaces
  /\ EOL \in eols
  /\ \E hasPackages \in (IF focus = "remote" THEN BOOLEAN ELSE {TRUE}),
        keys \in SUBSET Pool, style \in styles :
       /\ disk = DiskFile(DiskData(focus, hasPackages, keys), style)
       /\ \E locks \in SeqsUpTo({LockPart(focus, hasPackages, d, ks) :
                                   d \in DepPool, ks \in SUBSET keys},
                                maxParts),
             dependencies \in batches :
            update = [dependencies |-> dependencies, locks |-> locks]
  /\ wpc = "start"
  /\ content = <<>>
  /\ original = disk.data
  /\ idx = 1
  /\ prev = disk.data
  /\ patch = NoPatch
  /\ LockIdle
  /\ IncreaseIdle
  /\ UpdateIdle

\* The batches: the dependencies of a lockfile update are distinct
\* (collectUpdateFromLockFile, line 223: distinctBy).
Batches == {b \in SeqsUpTo(DepPool, MaxBatch) : b # <<>> /\ NoRepeat(b)}

InitMerge == InitMergeWith({"lf"}, {"LF"}, Batches, MaxParts)

\* Lines 253-254: read and parse the lockfile.
Read ==
  /\ wpc = "start"
  /\ content' = disk.eols
  /\ original' = disk.data
  /\ idx' = 1
  /\ wpc' = "merging"
  /\ UNCHANGED <<disk, update, EOL, prev, patch, focus>>

InLoop == wpc = "merging" /\ idx <= Len(update.dependencies)
Specifier == update.dependencies[idx]

\* Line 260: createLockPart throws (CommandError, or the lock it wrote does
\* not parse); writeToLockfile rejects.
CreateLockPartThrows ==
  /\ InLoop
  /\ wpc' = "failed"
  /\ UNCHANGED <<disk, update, EOL, content, original, idx, prev, patch, focus>>

\* Lines 272, 330: update.locks does not hold exactly one part of the
\* dependency; assertEquals throws.
OmitKeysThrows ==
  /\ InLoop
  /\ Len(Relevant(Specifier, update.locks)) # 1
  /\ wpc' = "failed"
  /\ UNCHANGED <<disk, update, EOL, content, original, idx, prev, patch, focus>>

\* A variant that writes the file at the end of every pass.
MergeWritingThrough ==
  /\ InLoop
  /\ Len(Relevant(Specifier, update.locks)) = 1
  /\ \E p \in Patches(focus, Specifier) :
       /\ patch' = p
       /\ original' = MergePatch(original, p,
                                 createLockFileOmitKeys(Specifier, update.locks))
  /\ disk' = [disk EXCEPT !.data = original']
  /\ prev' = original
  /\ idx' = idx + 1
  /\ UNCHANGED <<update, EOL, wpc, content, focus>>

\* Lines 256-299: one pass of the loop.
Merge ==
  /\ InLoop
  /\ Len(Relevant(Specifier, update.locks)) = 1
  /\ \E p \in Patches(focus, Specifier) :
       /\ patch' = p
       /\ original' = MergePatch(original, p,
                                 createLockFileOmitKeys(Specifier, update.locks))
  /\ prev' = original
  /\ idx' = idx + 1
  /\ UNCHANGED <<disk, update, EOL, wpc, content, focus>>

\* Lines 300-303: write the file.
Write ==
  /\ wpc = "merging"
  /\ idx > Len(update.dependencies)
  /\ LET eol == IF detectEOL(content) = "null" THEN EOL ELSE detectEOL(content)
     IN disk' = [eols |-> Stringify(original, eol), data |-> original,
                 order |-> KeyOrder(original)]
  /\ wpc' = "written"
  /\ UNCHANGED <<update, EOL, content, original, idx, prev, patch, focus>>

NextMerge ==
  \/ (Read /\ UNCHANGED <<lvars, ivars>>)
  \/ (CreateLockPartThrows /\ UNCHANGED <<lvars, ivars>>)
  \/ (OmitKeysThrows /\ UNCHANGED <<lvars, ivars>>)
  \/ (Merge /\ UNCHANGED <<lvars, ivars>>)
  \/ (Write /\ UNCHANGED <<lvars, ivars>>)

SpecMerge == InitMerge /\ [][NextMerge]_vars

\* The end-of-line conventions: every style of the input text and both
\* platforms, for the update of one dependency.
InitEol == InitMergeWith(Styles, {"LF", "CRLF"}, {<<"jsr:a@^1">>}, 1)
SpecEol == InitEol /\ [][NextMerge]_vars

(***************************************************************************)
(* Properties of the merge.  After a merge (Merged), `prev` is the lockfile*)
(* before it, `patch` the new fragment and `original` the lockfile after   *)
(* it; OwnPart is the part of the merged dependency in update.locks.       *)
(***************************************************************************)
Merged == idx > 1
LastSpecifier == update.dependencies[idx - 1]
OwnPart == Relevant(LastSpecifier, update.locks)[1].data
KeysIn(data, ns) == Keys(OrEmpty(Section(data, ns)))
\* The key is held by the part of another dependency.
HeldByAnother(key, ns) ==
  \E i \in DOMAIN update.locks :
    /\ update.locks[i].specifier # LastSpecifier
    /\ key \in KeysIn(update.locks[i].data, ns)
NoOtherPart == \A i \in DOMAIN update.locks : update.locks[i].specifier = LastSpecifier

\* C1: a package record or remote hash the part of another dependency holds
\* is never deleted by the merge of a dependency: if the lockfile had the key
\* before the merge, it has it afterwards.
C1_SharedEntriesKept ==
  Merged =>
    \A ns \in Namespaces : \A key \in KeysIn(prev, ns) :
      HeldByAnother(key, ns) => key \in KeysIn(original, ns)

\* The case of C1: a key that the own part and another part hold and the new
\* fragment does not is still there, and the fragment's new key is added.
C1_Witness ==
  /\ Merged
  /\ \E ns \in Namespaces : \E key \in KeysIn(prev, ns), new \in KeysIn(patch, ns) :
       /\ HeldByAnother(key, ns)
       /\ key \in KeysIn(OwnPart, ns)
       /\ key \notin KeysIn(patch, ns)
       /\ key \in KeysIn(original, ns)
       /\ new \notin KeysIn(prev, ns)
       /\ new \in KeysIn(original, ns)

\* C2, as claimed: when update.locks holds no part of another dependency, the
\* merge deletes nothing: the lockfile keeps every key it had.
C2_NothingDeletedWithoutOthers ==
  (Merged /\ NoOtherPart) =>
    \A ns \in Namespaces : KeysIn(prev, ns) \subseteq KeysIn(original, ns)

\* C2, amended: when update.locks holds only the dependency's own part, the
\* keys of a namespace after the merge are those the lockfile had, without
\* those of the own part, plus those of the new fragment, if the fragment has
\* the namespace (and the lockfile and the fragment both have `packages`, for
\* jsr and npm), and are unchanged otherwise; when update.locks holds no part
\* at all, nothing is merged and nothing is written.
C2_OwnKeysReplacedWithoutOthers ==
  /\ (Merged /\ NoOtherPart) =>
       \A ns \in Namespaces :
         KeysIn(original, ns) =
           IF Section(patch, ns).has /\ (ns = "remote" \/ prev.hasPackages)
           THEN (KeysIn(prev, ns) \ KeysIn(OwnPart, ns)) \cup KeysIn(patch, ns)
           ELSE KeysIn(prev, ns)
  /\ update.locks = <<>> => (~Merged /\ wpc # "written")

\* The case of C2: no other part, and a key of the own part is deleted.
C2_Witness ==
  /\ Merged /\ NoOtherPart
  /\ \E ns \in Namespaces : \E key \in KeysIn(prev, ns) :
       key \in KeysIn(OwnPart, ns) /\ key \notin KeysIn(original, ns)

\* C3: the merge of a dependency leaves every specifier mapping, package
\* record and remote hash whose key is neither in the dependency's own part
\* nor in its new fragment as it was (same key, same value), and the version
\* tag and workspace.dependencies too.
C3_Frame ==
  Merged =>
    /\ \A key \in Keys(Specifiers(prev)) :
         (key \notin Keys(Specifiers(OwnPart)) /\ key \notin Keys(Specifiers(patch)))
           => (key \in Keys(Specifiers(original))
               /\ Specifiers(original)[key] = Specifiers(prev)[key])
    /\ \A ns \in Namespaces : \A key \in KeysIn(prev, ns) :
         (key \notin KeysIn(OwnPart, ns) /\ key \notin KeysIn(patch, ns))
           => (key \in KeysIn(original, ns)
               /\ OrEmpty(Section(original, ns))[key] = OrEmpty(Section(prev, ns))[key])
    /\ original.version = prev.version
    /\ original.workspace = prev.workspace
    /\ wpc = "written" => disk.data = original

\* The case of C3: the merge changed the lockfile, and a key of neither the
\* own part nor the new fragment was there.
C3_Witness ==
  /\ Merged
  /\ original # prev
  /\ \E ns \in Namespaces : \E key \in KeysIn(prev, ns) :
       /\ key \notin KeysIn(OwnPart, ns) /\ key \notin KeysIn(patch, ns)
       /\ KeysIn(patch, ns) # {}
  /\ \E key \in Keys(Specifiers(prev)) :
       key \notin Keys(Specifiers(OwnPart)) /\ key \notin Keys(Specifiers(patch))

\* C4: after the merge of a fragment, every key of the fragment's specifier
\* map is in the lockfile's specifier map with the fragment's value, and
\* every package-record and remote-hash key of the fragment is in the
\* lockfile's namespace.
C4_FragmentApplied ==
  Merged =>
    /\ \A key \in Keys(Specifiers(patch)) :
         key \in Keys(Specifiers(original))
         /\ Specifiers(original)[key] = Specifiers(patch)[key]
    /\ \A ns \in Namespaces : KeysIn(patch, ns) \subseteq KeysIn(original, ns)

Ascending(keys) ==
  \A i, j \in DOMAIN keys : i < j => StringLess(keys[i], keys[j])
\* C5: in a lockfile writeToLockfile has written, the keys of specifiers,
\* jsr, npm and remote are in ascending order of the key strings (by code
\* unit, a key before every key it is a proper prefix of).
C5_KeysSorted ==
  wpc = "written" =>
    /\ Ascending(disk.order.specifiers)
    /\ Ascending(disk.order.jsr)
    /\ Ascending(disk.order.npm)
    /\ Ascending(disk.order.remote)

AllEols(eols, eol) == eols # <<>> /\ \A i \in DOMAIN eols : eols[i] = eol
\* C6: the lockfile written ends its lines as the lockfile read did: all in
\* CRLF for a CRLF input, all in LF for an LF input.
C6_EolPreserved ==
  wpc = "written" =>
    /\ AllEols(content, "CRLF") => AllEols(disk.eols, "CRLF")
    /\ AllEols(content, "LF") => AllEols(disk.eols, "LF")

AllMerged == wpc = "merging" /\ idx > Len(update.dependencies)

\* C28: writeToLockfile reads the lockfile once, merges the updates of the
\* batch in memory one after the other and writes the file once, after the
\* last merge; when a merge fails nothing is written: the file changes at the
\* write only, to the lockfile all the merges produced, and never after
\* writeToLockfile has written or failed.
C28_SingleWrite ==
  [][/\ (disk' # disk \/ (wpc' = "written" /\ wpc # "written")) =>
          /\ AllMerged
          /\ wpc' = "written"
          /\ disk'.data = original
     /\ wpc \in {"written", "failed"} => (disk' = disk /\ wpc' = wpc)
     /\ content' # content => wpc = "start"
     /\ (wpc = "merging" /\ ~AllMerged) =>
          (wpc' = "failed" \/ (wpc' = "merging" /\ idx' = idx + 1))]_vars

\* A batch of two: the first update was merged in memory, the second failed,
\* and the file is as it was read.
C28_Witness ==
  /\ wpc = "failed"
  /\ Len(update.dependencies) = 2
  /\ idx = 2
  /\ original # disk.data
  /\ content = disk.eols

\* The key is held by the parts of two dependencies.
HeldByTwo(key, ns) ==
  \E i, j \in DOMAIN update.locks :
    /\ update.locks[i].specifier # update.locks[j].specifier
    /\ key \in KeysIn(update.locks[i].data, ns)
    /\ key \in KeysIn(update.locks[j].data, ns)

\* C29: the keys a merge deletes are keys of the dependency's own part in
\* update.locks that no other part of update.locks holds, whatever was merged
\* before; so an entry of the lockfile that the parts of two dependencies
\* hold is still there when the whole batch is merged, in either order, even
\* when no new fragment holds it.
C29_PartsAsBeforeTheBatch ==
  /\ Merged =>
       \A ns \in Namespaces :
         KeysIn(prev, ns) \ KeysIn(original, ns)
           \subseteq {key \in KeysIn(OwnPart, ns) : ~HeldByAnother(key, ns)}
  /\ AllMerged =>
       \A ns \in Namespaces : \A key \in KeysIn(disk.data, ns) :
         HeldByTwo(key, ns) => key \in KeysIn(original, ns)

\* Both dependencies of a batch were merged; a key their two parts hold is
\* kept, though the last fragment has the namespace and not the key.
C29_Witness ==
  /\ AllMerged
  /\ Len(update.dependencies) = 2
  /\ \E ns \in Namespaces : \E key \in KeysIn(disk.data, ns) :
       /\ HeldByTwo(key, ns)
       /\ Section(patch, ns).has
       /\ key \notin KeysIn(patch, ns)
       /\ key \in KeysIn(original, ns)
       /\ original # disk.data

(***************************************************************************)
(* Dependencies and their string form (src/core/dependencies.ts).          *)
(***************************************************************************)
Dependency(kind, name, constraint, path) ==
  [kind |-> kind, name |-> name, constraint |-> constraint, path |-> path]

isRemote(dep) == dep.kind = "http" \/ dep.kind = "https"

AllComps == {"kind", "name", "constraint", "path"}
\* A stringify that puts no "//" after the protocol of a URL.
stringifyWithoutSlashes(dependency, comps) ==
  (IF "kind" \in comps THEN dependency.kind \o ":" ELSE "")
  \o dependency.name
  \o (IF "constraint" \in comps /\ dependency.constraint # ""
      THEN "@" \o dependency.constraint ELSE "")
  \o (IF "path" \in comps /\ dependency.path # "" THEN dependency.path ELSE "")

\* stringify(dependency, ...comps); no comps means all of them.
stringify(dependency, comps) ==
  (IF "kind" \in comps
   THEN dependency.kind \o ":" \o (IF isRemote(dependency) THEN "//" ELSE "")
   ELSE "")
  \o dependency.name
  \o (IF "constraint" \in comps /\ dependency.constraint # ""
      THEN "@" \o dependency.constraint ELSE "")
  \o (IF "path" \in comps /\ dependency.path # "" THEN dependency.path ELSE "")

(***************************************************************************)
(* Semantic versions and ranges: @std/semver, as src/core/updates.ts and   *)
(* increase (src/unnamed/part_000) use it.  A version is                   *)
(* major.minor.patch[-prerelease][+build]; the texts explored have         *)
(* numbers up to MaxNum, one prerelease tag and one build tag.             *)
(***************************************************************************)
Numbers == 0..MaxNum
PreTags == {"", "rc"}       \* "" is no prerelease
BuildTags == {"", "b"}      \* "" is no build metadata

\* `${n}` for a number n.
NumberText(n) == <<"0", "1", "2", "3", "4", "5", "6", "7", "8", "9">>[n + 1]

SemVer(major, minor, patchN, prerelease, build) ==
  [major |-> major, minor |-> minor, patch |-> patchN,
   prerelease |-> prerelease, build |-> build]

\* SemVer.format
format(semver) ==
  NumberText(semver.major) \o "." \o NumberText(semver.minor) \o "." \o
  NumberText(semver.patch)
  \o (IF semver.prerelease # "" THEN "-" \o semver.prerelease ELSE "")
  \o (IF semver.build # "" THEN "+" \o semver.build ELSE "")

SemVers ==
  {SemVer(major, minor, patchN, prerelease, build) :
     major \in Numbers, minor \in Numbers, patchN \in Numbers,
     prerelease \in PreTags, build \in BuildTags}

\* The texts that are versions, and the version a text is the format of.
SemVerTexts == {format(semver) : semver \in SemVers}
SemVerOf ==
  [text \in SemVerTexts |->
     CHOOSE semver \in SemVers : format(semver) = text]

NoSemVer == <<>>
\* SemVer.tryParse: the version, or NoSemVer (undefined) for any other text.
tryParse(version) ==
  IF version \in SemVerTexts THEN SemVerOf[version] ELSE NoSemVer

\* SemVer.compare: negative, zero or positive.  The build is not compared; a
\* version with a prerelease is lower than the same version without one.
compare(a, b) ==
  IF a.major # b.major THEN a.major - b.major
  ELSE IF a.minor # b.minor THEN a.minor - b.minor
  ELSE IF a.patch # b.patch THEN a.patch - b.patch
  ELSE IF a.prerelease = b.prerelease THEN 0
  ELSE IF a.prerelease = "" THEN 1
  ELSE -1

(***************************************************************************)
(* Ranges.  The text of a range is comparator sets joined by " || ", each  *)
(* a list of comparators joined by " "; a comparator is written            *)
(* <operator><major>[.<minor>[.<patch>[-prerelease][+build]]], where a     *)
(* part may be the wildcard x.                                             *)
(***************************************************************************)
Wild == -1      \* the part is written x
Absent == -2    \* the part is not written
Operators == {"", "=", "^", "~", ">=", "<"}

Written(operator, major, minor, patchN, prerelease, build) ==
  [operator |-> operator, major |-> major, minor |-> minor, patch |-> patchN,
   prerelease |-> prerelease, build |-> build]

PartText(part) == IF part = Wild THEN "x" ELSE NumberText(part)

ComparatorText(w) ==
  w.operator \o PartText(w.major)
  \o (IF w.minor # Absent THEN "." \o PartText(w.minor) ELSE "")
  \o (IF w.patch # Absent THEN "." \o PartText(w.patch) ELSE "")
  \o (IF w.prerelease # "" THEN "-" \o w.prerelease ELSE "")
  \o (IF w.build # "" THEN "+" \o w.build ELSE "")

RECURSIVE Join(_, _)
Join(texts, separator) ==
  IF Len(texts) = 1 THEN texts[1]
  ELSE texts[1] \o separator \o Join(Tail(texts), separator)

RangeText(written) ==
  Join([i \in DOMAIN written |->
          Join([j \in DOMAIN written[i] |-> ComparatorText(written[i][j])], " ")],
       " || ")

\* The comparators explored: full versions, partial versions and wildcards
\* under each operator; build metadata on bare versions only.
WrittenComparators ==
  {Written(operator, major, minor, patchN, prerelease, build) :
     operator \in Operators, major \in Numbers, minor \in Numbers,
     patchN \in Numbers, prerelease \in PreTags,
     build \in {t \in BuildTags : t = ""}}
  \cup {Written("", major, minor, patchN, prerelease, build) :
          major \in Numbers, minor \in Numbers, patchN \in Numbers,
          prerelease \in PreTags, build \in BuildTags}
  \cup {Written(operator, major, minor, patchN, "", "") :
          operator \in Operators, major \in Numbers,
          minor \in Numbers, patchN \in {Wild, Absent}}
  \cup {Written(operator, major, minor, Absent, "", "") :
          operator \in Operators, major \in Numbers, minor \in {Wild, Absent}}
  \cup {Written(operator, Wild, Absent, Absent, "", "") : operator \in Operators}

\* The ranges of more than one comparator explored.
WrittenCompounds ==
  LET one(operator, major) == Written(operator, major, 0, 0, "", "")
  IN {<<<<one(">=", 1), one("<", 2)>>>>,
      <<<<one("^", 1), one("<", 2)>>>>,
      <<<<one("~", 1), one(">=", 1)>>>>,
      <<<<one(">=", 1), one("^", 1)>>>>,
      <<<<one("^", 1)>>, <<one("^", 2)>>>>,
      <<<<one("", 1)>>, <<one("", 2)>>>>}

WrittenRanges == {<<<<w>>>> : w \in WrittenComparators} \cup WrittenCompounds

\* The texts that are ranges, and what a text is the text of.
RangeTexts == {RangeText(written) : written \in WrittenRanges}
WrittenOf ==
  [text \in RangeTexts |->
     CHOOSE written \in WrittenRanges : RangeText(written) = text]

\* A comparator: an operator ("" is undefined) and a version; ALL, the
\* wildcard comparator, matches every version.
Comparator(operator, major, minor, patchN, prerelease) ==
  [operator |-> operator, major |-> major, minor |-> minor, patch |-> patchN,
   prerelease |-> prerelease, all |-> FALSE]
ALL ==
  [operator |-> "", major |-> Wild, minor |-> Wild, patch |-> Wild,
   prerelease |-> "", all |-> TRUE]

isWildcard(part) == part \in {Wild, Absent}

\* parse_range.ts: handleCaretOperator, handleTildeOperator,
\* handleLessThanOperator, handleGreaterOrEqualOperator, handleEqualOperator.
parseOperatorRange(w) ==
  LET lower(major, minor, patchN, prerelease) ==
        Comparator(">=", major, minor, patchN, prerelease)
      upper(major, minor, patchN) == Comparator("<", major, minor, patchN, "")
  IN CASE w.operator = "^" ->
            IF isWildcard(w.major) THEN <<ALL>>
            ELSE IF isWildcard(w.minor)
            THEN <<lower(w.major, 0, 0, ""), upper(w.major + 1, 0, 0)>>
            ELSE IF isWildcard(w.patch)
            THEN IF w.major = 0
                 THEN <<lower(0, w.minor, 0, ""), upper(0, w.minor + 1, 0)>>
                 ELSE <<lower(w.major, w.minor, 0, ""), upper(w.major + 1, 0, 0)>>
            ELSE IF w.major = 0
            THEN IF w.minor = 0
                 THEN <<lower(0, 0, w.patch, w.prerelease), upper(0, 0, w.patch + 1)>>
                 ELSE <<lower(0, w.minor, w.patch, w.prerelease),
                        upper(0, w.minor + 1, 0)>>
            ELSE <<lower(w.major, w.minor, w.patch, w.prerelease),
                   upper(w.major + 1, 0, 0)>>
       [] w.operator = "~" ->
            IF isWildcard(w.major) THEN <<ALL>>
            ELSE IF isWildcard(w.minor)
            THEN <<lower(w.major, 0, 0, ""), upper(w.major + 1, 0, 0)>>
            ELSE IF isWildcard(w.patch)
            THEN <<lower(w.major, w.minor, 0, ""), upper(w.major, w.minor + 1, 0)>>
            ELSE <<lower(w.major, w.minor, w.patch, w.prerelease),
                   upper(w.major, w.minor + 1, 0)>>
       [] w.operator = "<" ->
            IF isWildcard(w.major) THEN <<upper(0, 0, 0)>>
            ELSE IF isWildcard(w.minor) THEN <<upper(w.major, 0, 0)>>
            ELSE IF isWildcard(w.patch) THEN <<upper(w.major, w.minor, 0)>>
            ELSE <<Comparator("<", w.major, w.minor, w.patch, w.prerelease)>>
       [] w.operator = ">=" ->
            IF isWildcard(w.major) THEN <<ALL>>
            ELSE IF isWildcard(w.minor) THEN <<lower(w.major, 0, 0, "")>>
            ELSE IF isWildcard(w.patch) THEN <<lower(w.major, w.minor, 0, "")>>
            ELSE <<lower(w.major, w.minor, w.patch, w.prerelease)>>
       [] w.operator \in {"", "="} ->
            IF isWildcard(w.major) THEN <<ALL>>
            ELSE IF isWildcard(w.minor)
            THEN <<lower(w.major, 0, 0, ""), upper(w.major + 1, 0, 0)>>
            ELSE IF isWildcard(w.patch)
            THEN <<lower(w.major, w.minor, 0, ""), upper(w.major, w.minor + 1, 0)>>
            ELSE <<Comparator("", w.major, w.minor, w.patch, w.prerelease)>>

\* string.split(/\s+/).flatMap(parseOperatorRange)
RECURSIVE parseOperatorRanges(_)
parseOperatorRanges(set) ==
  IF set = <<>> THEN <<>>
  ELSE parseOperatorRange(Head(set)) \o parseOperatorRanges(Tail(set))

NoRange == <<>>
\* SemVer.tryParseRange: the comparator sets of the range, or NoRange
\* (undefined) for any other text.
tryParseRange(constraint) ==
  IF constraint \in RangeTexts
  THEN [i \in DOMAIN WrittenOf[constraint] |->
          parseOperatorRanges(WrittenOf[constraint][i])]
  ELSE NoRange

\* _test_comparator_set.ts: testComparator
testComparator(semver, comparator) ==
  IF comparator.all THEN TRUE
  ELSE CASE comparator.operator = "" -> compare(semver, comparator) = 0
         [] comparator.operator = ">=" -> compare(semver, comparator) >= 0
         [] comparator.operator = "<" -> compare(semver, comparator) < 0

\* testComparatorSet: every comparator matches and, for a version with a
\* prerelease, some comparator has a prerelease on the same
\* major.minor.patch.
testComparatorSet(semver, set) ==
  /\ \A i \in DOMAIN set : testComparator(semver, set[i])
  /\ semver.prerelease # "" =>
       \E i \in DOMAIN set :
         /\ ~set[i].all
         /\ set[i].prerelease # ""
         /\ semver.major = set[i].major
         /\ semver.minor = set[i].minor
         /\ semver.patch = set[i].patch

\* SemVer.satisfies
satisfies(semver, range) ==
  \E i \in DOMAIN range : testComparatorSet(semver, range[i])
\* A slip: the lowest version.
minWith(semvers) ==
  IF semvers = {} THEN NoSemVer
  ELSE CHOOSE v \in semvers : \A w \in semvers : compare(w, v) >= 0
\* maxWith(semvers, SemVer.compare); NoSemVer for undefined.
maxWith(semvers) ==
  IF semvers = {} THEN NoSemVer
  ELSE CHOOSE v \in semvers : \A w \in semvers : compare(w, v) <= 0
\* A slip: the lowest version.
minSatisfying(semvers, range) ==
  LET ok == {v \in semvers : satisfies(v, range)}
  IN IF ok = {} THEN NoSemVer
     ELSE CHOOSE v \in ok : \A w \in ok : compare(w, v) >= 0
\* SemVer.maxSatisfying.
maxSatisfying(semvers, range) ==
  maxWith({v \in semvers : satisfies(v, range)})

(***************************************************************************)
(* The registries: what jsr.io, api.jsr.io, registry.npmjs.org and the     *)
(* host of a remote module answer.  `registry` is fixed during a call.     *)
(*   versions[name]              the versions published                    *)
(*   yanked[name]                those of them that are yanked (jsr)       *)
(*   dependencies[name][version] the edges a jsr package declares          *)
(*   info[name][version]         the name/constraint pairs an npm package  *)
(*                               declares                                  *)
(*   graph[version]              the modules createGraph finds from the    *)
(*                               remote module at that version             *)
(*   down                        the endpoint that answers with a non-OK   *)
(*                               status, if any                            *)
(***************************************************************************)
Response(ok, body) == [ok |-> ok, body |-> body]
ErrorBody == "error"
checksum(body) == "sha256(" \o body \o ")"

Up(endpoint, name) == registry.down # [endpoint |-> endpoint, name |-> name]
Serves(name, version) ==
  name \in DOMAIN registry.versions /\ version \in registry.versions[name]

\* GET https://jsr.io/<name>/<version>_meta.json
FetchIntegrity(name, version) ==
  IF Up("integrity", name) /\ Serves(name, version)
  THEN Response(TRUE, "meta:" \o name \o "@" \o version)
  ELSE Response(FALSE, ErrorBody)
\* GET https://api.jsr.io/scopes/../packages/../versions/<version>/dependencies
FetchDependencies(name, version) ==
  IF Up("dependencies", name) /\ Serves(name, version)
  THEN Response(TRUE, registry.dependencies[name][version])
  ELSE Response(FALSE, ErrorBody)
\* GET https://registry.npmjs.org/<name>/<version>.  The registry answers for
\* a distribution tag ("latest") too, with the manifest of the version the
\* tag names.
Tagged(name, version) ==
  name \in DOMAIN registry.tags /\ version \in DOMAIN registry.tags[name]
Manifest(name, version) ==
  [integrity |-> "sha512:" \o name \o "@" \o version,
   dependencies |-> registry.info[name][version]]
FetchInfo(name, version) ==
  IF Up("info", name) /\ Serves(name, version)
  THEN Response(TRUE, Manifest(name, version))
  ELSE IF Up("info", name) /\ Tagged(name, version)
  THEN Response(TRUE, Manifest(name, registry.tags[name][version]))
  ELSE Response(FALSE, ErrorBody)
\* GET https://jsr.io/<name>/meta.json, https://registry.npmjs.org/<name>
FetchMeta(name) ==
  IF Up("meta", name) /\ name \in DOMAIN registry.versions
  THEN Response(TRUE, name)
  ELSE Response(FALSE, ErrorBody)
\* GET of a module
FetchModule(url) ==
  IF Up("module", url) THEN Response(TRUE, "source:" \o url)
  ELSE Response(FALSE, ErrorBody)

\* What a function that may throw gives: a value, or the error thrown.
Return(value) == [ok |-> TRUE, value |-> value]
Throw == [ok |-> FALSE, value |-> "Http"]

(***************************************************************************)
(* parse (src/unnamed/part_001:46-72).  A specifier is its text cut into   *)
(* lexemes: the delimiters ":", "/", "@" and "?" each on their own, and    *)
(* the pieces of text between them, which hold no delimiter.               *)
(***************************************************************************)
RECURSIVE Concat(_)
Concat(lexemes) ==
  IF lexemes = <<>> THEN "" ELSE Head(lexemes) \o Concat(Tail(lexemes))

\* The lexemes before the first `mark`, and those from it on.
Before(lexemes, mark) ==
  IF \E i \in DOMAIN lexemes : lexemes[i] = mark
  THEN SubSeq(lexemes, 1,
              (CHOOSE i \in DOMAIN lexemes :
                 lexemes[i] = mark /\ \A j \in 1..(i - 1) : lexemes[j] # mark) - 1)
  ELSE lexemes
From(lexemes, mark) ==
  SubSeq(lexemes, Len(Before(lexemes, mark)) + 1, Len(lexemes))

isKind(kind) == kind \in {"jsr", "npm", "http", "https"}

\* new URL(specifier): the protocol without its colon, and hostname +
\* pathname.  The search part ("?" and what follows) is in neither; for
\* http and https the "//" before the host is dropped.
UrlKind(specifier) == Concat(Before(specifier, ":"))
UrlBody(specifier) ==
  LET rest == Tail(From(Before(specifier, "?"), ":"))
  IN IF UrlKind(specifier) \in {"http", "https"} /\ Len(rest) >= 2
        /\ rest[1] = "/" /\ rest[2] = "/"
     THEN SubSeq(rest, 3, Len(rest))
     ELSE rest

\* body.match(/^(?<name>.+)@(?<constraint>[^/]+)(?<path>\/.*)?$/): the
\* positions of "@" that leave a name before and a constraint after; `.+`
\* is greedy, so the match is at the last of them.
Marks(body) ==
  {i \in DOMAIN body :
     /\ body[i] = "@"
     /\ i > 1
     /\ i < Len(body)
     /\ body[i + 1] # "/"}
\* Line 68: a jsr specifier may have a leading slash.
WithLeadingSlash(name) == Concat(name)
WithoutLeadingSlash(name) ==
  IF Head(name) = "/" THEN Concat(Tail(name)) ELSE Concat(name)

ParseError == [ok |-> FALSE, value |-> "Could not parse dependency"]
InvalidProtocol == [ok |-> FALSE, value |-> "Invalid protocol"]

parse(specifier) ==
  LET kind == UrlKind(specifier)
      body == UrlBody(specifier)
  IN IF ~isKind(kind) THEN InvalidProtocol
     ELSE IF Marks(body) = {} THEN ParseError
     ELSE LET at == CHOOSE i \in Marks(body) : \A j \in Marks(body) : j <= i
              name == SubSeq(body, 1, at - 1)
              after == SubSeq(body, at + 1, Len(body))
          IN Return(Dependency(
               kind,
               WithoutLeadingSlash(name),
               Concat(Before(after, "/")),
               Concat(From(after, "/"))))

(***************************************************************************)
(* getUpdate (src/core/updates.ts:29-140) for a package.                   *)
(***************************************************************************)
getNpmVersions(dep) ==
  IF FetchMeta(dep.name).ok THEN Return(registry.versions[dep.name]) ELSE Throw
\* A slip: the yanked versions are kept.
getJsrVersionsWithYanked(dep) ==
  IF FetchMeta(dep.name).ok THEN Return(registry.versions[dep.name]) ELSE Throw
getJsrVersions(dep) ==
  IF FetchMeta(dep.name).ok
  THEN Return(registry.versions[dep.name] \ registry.yanked[dep.name])
  ELSE Throw
getVersions(dep) == IF dep.kind = "npm" THEN getNpmVersions(dep) ELSE getJsrVersions(dep)

NoUpdate == [defined |-> FALSE, latest |-> "", constrainted |-> "", released |-> ""]
\* `semver && SemVer.format(semver)`; "" is an undefined field.
Formatted(semver) == IF semver = NoSemVer THEN "" ELSE format(semver)

\* Lines 53-67: the HEAD request on the URL without version and path.  The
\* version in the URL the origin redirects to; "" (undefined) when it does
\* not redirect.
getRemoteLatestVersion(dep) ==
  IF registry.redirect = <<>> THEN ""
  ELSE parse(registry.redirect).value.constraint

\* Lines 37-51.
getRemoteUpdate(dep) ==
  LET latest == getRemoteLatestVersion(dep)
      semver == tryParse(latest)
  IN IF latest = "" THEN Return(NoUpdate)
     ELSE IF semver = NoSemVer
     THEN Return([defined |-> TRUE, latest |-> latest, constrainted |-> "",
                  released |-> ""])
     ELSE Return([defined |-> TRUE, latest |-> latest, constrainted |-> "",
                  released |-> IF semver.prerelease = "" THEN format(semver) ELSE ""])

\* Lines 69-95.
getPackageUpdate(dep) ==
  LET versions == getVersions(dep) IN
  IF ~versions.ok THEN Throw
  ELSE
    LET semvers == {tryParse(v) : v \in {w \in versions.value : tryParse(w) # NoSemVer}}
        latest == maxWith(semvers)
        releases == {it \in semvers : it.prerelease = ""}
        released == maxWith(releases)
        range == tryParseRange(dep.constraint)
        constrainted == IF range = NoRange THEN NoSemVer
                        ELSE maxSatisfying(semvers, range)
    IN IF latest = NoSemVer THEN Return(NoUpdate)
       ELSE IF dep.constraint = ""
       THEN Return([defined |-> TRUE, latest |-> format(latest), constrainted |-> "",
                    released |-> Formatted(released)])
       ELSE Return([defined |-> TRUE, latest |-> format(latest),
                    constrainted |-> Formatted(constrainted),
                    released |-> Formatted(released)])

(***************************************************************************)
(* The lockfile handle of deno_lockfile (its code is not in src/): a       *)
(* specifier map and a package map, keyed by strings, and a remote map.    *)
(***************************************************************************)
Put(rec, key, value) ==
  [k \in Keys(rec) \cup {key} |-> IF k = key THEN value ELSE rec[k]]

parseFromJson(dependencies) ==
  [version |-> "3", specifiers |-> EmptyRecord, packages |-> EmptyRecord,
   remote |-> EmptyRecord, workspace |-> dependencies]
insertPackageSpecifier(lock, request, identifier) ==
  [lock EXCEPT !.specifiers = Put(@, request, identifier)]
insertPackage(lock, specifier, integrity) ==
  [lock EXCEPT !.packages =
     Put(@, specifier,
         [integrity |-> integrity,
          dependencies |-> IF specifier \in Keys(@) THEN @[specifier].dependencies
                           ELSE {}])]
addPackageDeps(lock, specifier, deps) ==
  IF specifier \in Keys(lock.packages)
  THEN [lock EXCEPT !.packages[specifier].dependencies = @ \cup deps]
  ELSE lock
insertRemote(lock, url, hash) == [lock EXCEPT !.remote = Put(@, url, hash)]

(***************************************************************************)
(* createLock (src/unnamed/part_010:104-250).                              *)
(***************************************************************************)
getJsrPackageIntegrity(dependency) ==
  checksum(FetchIntegrity(dependency.name, dependency.constraint).body)
getNpmPackageInfo(dependency) ==
  LET res == FetchInfo(dependency.name, dependency.constraint)
  IN IF res.ok THEN Return(res.body) ELSE Throw
getJsrDependencies(dependency) ==
  LET res == FetchDependencies(dependency.name, dependency.constraint)
  IN IF res.ok THEN Return(res.body) ELSE Throw

\* Both give the lock handle as they leave it and, unless they throw, the
\* dependencies of the package.
\* A variant with a set of visited packages kept at module level: a package
\* an earlier call of createLock recorded is not recorded again.
insertJsrPackageVisitedOnce(lock, specifier, identifier) ==
  LET inserted == insertPackage(lock, specifier, getJsrPackageIntegrity(identifier))
      deps == getJsrDependencies(identifier)
  IN IF \E i \in DOMAIN runs : specifier \in Keys(runs[i].fragment.packages)
     THEN [ok |-> TRUE, lock |-> lock, deps |-> <<>>]
     ELSE [ok |-> deps.ok, lock |-> inserted,
           deps |-> IF deps.ok THEN deps.value ELSE <<>>]
insertJsrPackage(lock, specifier, identifier) ==
  LET inserted == insertPackage(lock, specifier, getJsrPackageIntegrity(identifier))
      deps == getJsrDependencies(identifier)
  IN [ok |-> deps.ok, lock |-> inserted, deps |-> IF deps.ok THEN deps.value ELSE <<>>]
insertNpmPackage(lock, specifier, identifier) ==
  LET info == getNpmPackageInfo(identifier)
  IN IF ~info.ok THEN [ok |-> FALSE, lock |-> lock, deps |-> <<>>]
     ELSE [ok |-> TRUE,
           lock |-> insertPackage(lock, specifier, info.value.integrity),
           deps |-> [i \in DOMAIN info.value.dependencies |->
                       Dependency("npm", info.value.dependencies[i][1],
                                  info.value.dependencies[i][2], "")]]

\* A call of insertPackage in progress: at "enter" before line 153, at
\* "loop" in the loop of lines 170-174, `idx` the next dependency.
Frame(request, target) ==
  [request |-> request, target |-> target, pc |-> "enter", deps |-> <<>>, idx |-> 1]
Top == stack[Len(stack)]
Identifier(frame) == [frame.request EXCEPT !.constraint = frame.target]
WithoutPath(dep) == [dep EXCEPT !.path = ""]

\* Lines 113-119: the graph of the dependency's own URL.
CreateRemoteLock ==
  /\ cpc = "start"
  /\ isRemote(call.dependency)
  /\ lockfile' = parseFromJson(<<>>)
  /\ stack' = <<[request |-> call.dependency, target |-> call.target, pc |-> "modules",
                 deps |-> registry.graph[call.dependency.constraint], idx |-> 1]>>
  /\ cpc' = "running"
  /\ UNCHANGED <<registry, call, fetched>>

\* Lines 120-127: one pass of the loop, or the return.
InsertRemote ==
  /\ cpc = "running"
  /\ Top.pc = "modules"
  /\ IF Top.idx > Len(Top.deps)
     THEN /\ cpc' = "returned"
          /\ stack' = <<>>
          /\ UNCHANGED <<lockfile, fetched>>
     ELSE LET url == Top.deps[Top.idx]
              res == FetchModule(url)
          IN /\ fetched' = Append(fetched, url)
             /\ IF res.ok
                THEN /\ lockfile' = insertRemote(lockfile, url, checksum(res.body))
                     /\ stack' = [stack EXCEPT ![Len(stack)].idx = @ + 1]
                     /\ cpc' = cpc
                ELSE /\ cpc' = "failed"
                     /\ UNCHANGED <<lockfile, stack>>
  /\ UNCHANGED <<registry, call>>

\* Lines 130-145, up to the call of insertPackage.
CreatePackageLock ==
  /\ cpc = "start"
  /\ ~isRemote(call.dependency)
  /\ LET dependency == WithoutPath(call.dependency)
     IN /\ lockfile' = parseFromJson(<<stringify(dependency, AllComps)>>)
        /\ stack' = <<Frame(dependency, call.target)>>
  /\ cpc' = "running"
  /\ UNCHANGED <<registry, call, fetched>>

\* Lines 153-169: the specifier, the package and its dependencies.
InsertPackage ==
  /\ cpc = "running"
  /\ Top.pc = "enter"
  /\ LET identifier == Identifier(Top)
         specifier == stringify(identifier, {"name", "constraint"})
         mapped == insertPackageSpecifier(lockfile, stringify(Top.request, AllComps),
                                          stringify(identifier, AllComps))
         got == IF Top.request.kind = "jsr"
                THEN insertJsrPackage(mapped, specifier, identifier)
                ELSE insertNpmPackage(mapped, specifier, identifier)
         names == {stringify(got.deps[i], {"kind", "name", "constraint"}) :
                     i \in DOMAIN got.deps}
     IN /\ fetched' = Append(fetched, stringify(identifier, AllComps))
        /\ IF got.ok
           THEN /\ lockfile' = addPackageDeps(got.lock, specifier, names)
                /\ stack' = [stack EXCEPT ![Len(stack)].pc = "loop",
                                          ![Len(stack)].deps = got.deps]
                /\ cpc' = cpc
           ELSE /\ lockfile' = got.lock
                /\ cpc' = "failed"
                /\ stack' = stack
  /\ UNCHANGED <<registry, call>>

\* Lines 170-173: the next dependency is resolved and insertPackage is
\* called for it.  Calls nested deeper than MaxDepth are not followed.
InsertDependency ==
  /\ cpc = "running"
  /\ Top.pc = "loop"
  /\ Top.idx <= Len(Top.deps)
  /\ Len(stack) < MaxDepth
  /\ LET dep == WithoutPath(Top.deps[Top.idx])
         found == getPackageUpdate(dep)
     IN IF found.ok
        THEN /\ stack' = Append([stack EXCEPT ![Len(stack)].idx = @ + 1],
                                Frame(dep, IF found.value.constrainted # ""
                                           THEN found.value.constrainted
                                           ELSE dep.constraint))
             /\ cpc' = cpc
        ELSE /\ cpc' = "failed"
             /\ stack' = stack
  /\ UNCHANGED <<registry, call, lockfile, fetched>>

\* Line 175, and line 145 for the outermost call: lockfile.toJson().
ReturnFromInsertPackage ==
  /\ cpc = "running"
  /\ Top.pc = "loop"
  /\ Top.idx > Len(Top.deps)
  /\ stack' = SubSeq(stack, 1, Len(stack) - 1)
  /\ cpc' = IF Len(stack) = 1 THEN "returned" ELSE cpc
  /\ UNCHANGED <<registry, call, lockfile, fetched>>

(***************************************************************************)
(* The calls of createLock and the registries that are explored: the jsr   *)
(* packages a and b, the npm packages n and m and the remote module        *)
(* x.land/m.                                                               *)
(***************************************************************************)
Versions == {"1.0.0", "1.1.0"}
Published == [a |-> Versions, b |-> Versions, n |-> {"1.0.0"}, m |-> {"1.0.0"}]
NothingYanked == [a |-> {}, b |-> {}, n |-> {}, m |-> {}]
\* The distribution tags of the npm packages.
Tags == [m |-> [latest |-> "1.0.0"]]

\* The edges a jsr package may declare: the two ranges of b resolve to the
\* same version, ^2.0.0 to none.
EdgePool ==
  {Dependency("jsr", "a", "^1.0.0", ""), Dependency("jsr", "b", "^1.0.0", "/sub"),
   Dependency("jsr", "b", "^1.1.0", ""), Dependency("jsr", "b", "^2.0.0", ""),
   Dependency("npm", "n", "^1.0.0", "")}
EdgeLists(pool) == {e \in SeqsUpTo(pool, MaxEdges) : NoRepeat(e)}
\* The edges of b are without path and satisfiable.
PlainEdges == {e \in EdgePool : e.path = "" /\ e.constraint # "^2.0.0"}
NpmEdgeLists == {<<>>, << <<"n", "^1.0.0">> >>}
\* An npm package may ask for a distribution tag of another.
TagEdgeLists == {<< <<"m", "latest">> >>}

RemoteModule(version, path) == Dependency("https", "x.land/m", version, path)
Graph ==
  [v \in Versions |-> <<stringify(RemoteModule(v, "/mod.ts"), AllComps),
                        stringify(RemoteModule(v, "/dep.ts"), AllComps)>>]

NoneDown == [endpoint |-> "none", name |-> ""]
Down(endpoint, name) == [endpoint |-> endpoint, name |-> name]

\* a@1.0.0 declares `ea`, a@1.1.0 `ea2`, every version of b `eb`, n `en`.
Registry(ea, ea2, eb, en, down) ==
  [versions |-> Published,
   yanked |-> NothingYanked,
   dependencies |-> [a |-> [v \in Versions |-> IF v = "1.0.0" THEN ea ELSE ea2],
                     b |-> [v \in Versions |-> eb]],
   info |-> [n |-> [v \in Published["n"] |-> en],
             m |-> [v \in Published["m"] |-> <<>>]],
   tags |-> Tags,
   graph |-> Graph,
   down |-> down]

Calls ==
  {[dependency |-> Dependency("jsr", "a", "^1.0.0", "/x"), target |-> t] : t \in Versions}
  \cup {[dependency |-> Dependency("npm", "n", "^1.0.0", ""), target |-> "1.0.0"],
        [dependency |-> RemoteModule("1.0.0", "/mod.ts"), target |-> "1.1.0"]}

Downs ==
  {NoneDown, Down("integrity", "b"), Down("dependencies", "b"), Down("meta", "b"),
   Down("info", "n")}
RegistriesFor(c) ==
  CASE c.dependency.kind = "jsr" ->
         {Registry(ea, ea2, eb, en, down) :
            <<ea, ea2>> \in {<<e, e2>> \in EdgeLists(EdgePool) \X EdgeLists(EdgePool) :
                              e2 \in {e, <<>>}},
            eb \in EdgeLists(PlainEdges), en \in NpmEdgeLists, down \in Downs}
    [] c.dependency.kind = "npm" ->
         {Registry(<<>>, <<>>, <<>>, en, down) :
            en \in NpmEdgeLists \cup TagEdgeLists,
            down \in {NoneDown, Down("info", "n"), Down("meta", "n")}}
    [] OTHER ->
         {Registry(<<>>, <<>>, <<>>, <<>>, down) :
            down \in {NoneDown} \cup {Down("module", Graph[v][2]) : v \in Versions}}

\* The writeToLockfile variables while createLock is explored.
MergeIdle ==
  /\ disk = DiskFile(DiskData("jsr", TRUE, {}), "lf")
  /\ update = [dependencies |-> <<>>, locks |-> <<>>]
  /\ EOL = "LF"
  /\ wpc = "idle"
  /\ content = <<>>
  /\ original = disk.data
  /\ idx = 1
  /\ prev = disk.data
  /\ patch = NoPatch
  /\ focus = "jsr"

InitLock ==
  /\ call \in Calls
  /\ registry \in RegistriesFor(call)
  /\ lockfile = parseFromJson(<<>>)
  /\ stack = <<>>
  /\ cpc = "start"
  /\ fetched = <<>>
  /\ runs = <<>>
  /\ MergeIdle
  /\ IncreaseIdle
  /\ UpdateIdle

NextLock ==
  \/ (CreateRemoteLock /\ UNCHANGED <<mvars, runs, ivars>>)
  \/ (InsertRemote /\ UNCHANGED <<mvars, runs, ivars>>)
  \/ (CreatePackageLock /\ UNCHANGED <<mvars, runs, ivars>>)
  \/ (InsertPackage /\ UNCHANGED <<mvars, runs, ivars>>)
  \/ (InsertDependency /\ UNCHANGED <<mvars, runs, ivars>>)
  \/ (ReturnFromInsertPackage /\ UNCHANGED <<mvars, runs, ivars>>)

SpecLock == InitLock /\ [][NextLock]_vars

(***************************************************************************)
(* Two calls of createLock in one process.  The caller calls createLock a  *)
(* second time with the same arguments while the registries answer as      *)
(* before; whatever the first call left behind is still there.             *)
(***************************************************************************)
\* What a call that ended produced: a fragment, or an exception.
Outcome ==
  [call |-> call, threw |-> cpc = "failed",
   fragment |-> IF cpc = "returned" THEN lockfile ELSE parseFromJson(<<>>)]

\* Lines 104-111, entered again: the first call has ended and is recorded.
Rerun ==
  /\ cpc \in {"returned", "failed"}
  /\ runs = <<>>
  /\ runs' = <<Outcome>>
  /\ cpc' = "start"
  /\ stack' = <<>>
  /\ fetched' = <<>>
  /\ UNCHANGED <<registry, call, lockfile>>

NextRerun ==
  \/ NextLock
  \/ (Rerun /\ UNCHANGED <<mvars, ivars>>)

SpecRerun == InitLock /\ [][NextRerun]_vars

(***************************************************************************)
(* increase (src/unnamed/part_000:111-166): the constraint raised so that  *)
(* it admits a version.                                                    *)
(***************************************************************************)
\* `assert` and `unreachable` throw an AssertionError, SemVer.parse and
\* SemVer.parseRange a TypeError; increase throws an Error with its own
\* message instead.
AssertionError == [ok |-> FALSE, value |-> "AssertionError"]
TypeError == [ok |-> FALSE, value |-> "TypeError"]
Unexpected(constraint) ==
  [ok |-> FALSE, value |-> "Unexpected format of version constraint: " \o constraint]

\* constraint.startsWith(prefix), for the prefixes "^" and "~": the text of
\* a range starts with the operator of its first comparator.
startsWith(constraint, prefix) ==
  /\ constraint \in RangeTexts
  /\ WrittenOf[constraint][1][1].operator = prefix

\* comparators.find((it) => it.operator === operator) is defined
finds(comparators, operator) ==
  \E i \in DOMAIN comparators : comparators[i].operator = operator

\* A slip: the major alone, whatever it is.
CaretOfMajor(target) == "^" \o NumberText(target.major) \o ".0.0"

\* A slip: every number of the target is copied.
CaretCopying(target) ==
  "^" \o NumberText(target.major) \o "." \o NumberText(target.minor)
  \o "." \o NumberText(target.patch)

\* Lines 149-155
CaretOf(target) ==
  IF target.major # 0 THEN "^" \o NumberText(target.major) \o ".0.0"
  ELSE IF target.minor # 0 THEN "^0." \o NumberText(target.minor) \o ".0"
  ELSE "^0.0." \o NumberText(target.patch)

\* A slip: every number of the target is copied.
TildeCopying(target) ==
  "~" \o NumberText(target.major) \o "." \o NumberText(target.minor)
  \o "." \o NumberText(target.patch)

\* Lines 159-162
TildeOf(target) ==
  IF target.major # 0
  THEN "~" \o NumberText(target.major) \o "." \o NumberText(target.minor) \o ".0"
  ELSE "~" \o NumberText(target.major) \o "." \o NumberText(target.minor)
       \o "." \o NumberText(target.patch)

\* A slip: the operator "=" is looked for; the parser leaves the operator of
\* an equality undefined.
isEqualityByOperator(comparators) ==
  Len(comparators) = 1 /\ comparators[1].operator = "="

\* Lines 137: one comparator, without an operator
isEquality(comparators) ==
  Len(comparators) = 1 /\ comparators[1].operator = ""

\* A slip: the shape of the constraint is inspected before the version is
\* tested against it.
_increaseShapeFirst(constraint, version) ==
  LET range == tryParseRange(constraint)
      target == tryParse(version)
  IN IF range = NoRange THEN AssertionError
     ELSE IF Len(range) # 1 THEN AssertionError
     ELSE IF target = NoSemVer THEN AssertionError
     ELSE IF isEquality(range[1]) THEN Return(version)
     ELSE IF ~finds(range[1], ">=") THEN AssertionError
     ELSE IF ~finds(range[1], "<") THEN AssertionError
     ELSE IF satisfies(target, range) THEN Return(constraint)
     ELSE IF startsWith(constraint, "^") THEN Return(CaretOf(target))
     ELSE IF startsWith(constraint, "~") THEN Return(TildeOf(target))
     ELSE AssertionError

\* A slip: a constraint of another shape is replaced by the version.
_increaseFallingBack(constraint, version) ==
  LET range == tryParseRange(constraint)
      target == tryParse(version)
  IN IF range = NoRange THEN AssertionError
     ELSE IF target = NoSemVer THEN AssertionError
     ELSE IF satisfies(target, range) THEN Return(constraint)
     ELSE IF Len(range) = 1 /\ startsWith(constraint, "^") THEN Return(CaretOf(target))
     ELSE IF Len(range) = 1 /\ startsWith(constraint, "~") THEN Return(TildeOf(target))
     ELSE Return(version)

_increase(constraint, version) ==
  LET range == tryParseRange(constraint)
      target == tryParse(version)
  IN IF range = NoRange THEN TypeError               \* parseRange throws
     ELSE IF Len(range) # 1 THEN AssertionError
     ELSE IF target = NoSemVer THEN TypeError        \* parse throws
     ELSE IF satisfies(target, range) THEN Return(constraint)
     ELSE IF isEquality(range[1]) THEN Return(version)
     ELSE IF ~finds(range[1], ">=") THEN AssertionError
     ELSE IF ~finds(range[1], "<") THEN AssertionError
     ELSE IF startsWith(constraint, "^") THEN Return(CaretOf(target))
     ELSE IF startsWith(constraint, "~") THEN Return(TildeOf(target))
     ELSE AssertionError                             \* unreachable()

\* An increase without the try and catch: what _increase throws escapes.
increaseRethrowing(constraint, version) == _increase(constraint, version)
increase(constraint, version) ==
  IF _increase(constraint, version).ok THEN _increase(constraint, version)
  ELSE Unexpected(constraint)

\* The texts increase is called with: the ranges and versions explored, and
\* a text that is neither.
ConstraintTexts == RangeTexts \cup {"latest"}
VersionTexts == SemVerTexts \cup {"latest"}

InitIncrease ==
  /\ inc \in [constraint : ConstraintTexts, version : VersionTexts,
              pc : {"start"}, result : {Throw}]
  /\ MergeIdle
  /\ LockIdle
  /\ UpdateIdle

Increase ==
  /\ inc.pc = "start"
  /\ inc' = [inc EXCEPT !.pc = "done",
                        !.result = increase(inc.constraint, inc.version)]
  /\ UNCHANGED <<lookup, app>>

NextIncrease == Increase /\ UNCHANGED <<mvars, lvars>>

SpecIncrease == InitIncrease /\ [][NextIncrease]_vars

(***************************************************************************)
(* getUpdate (src/core/updates.ts:29-35) for a jsr or npm dependency,      *)
(* against registries that list prereleases, texts that are not versions,  *)
(* and yanked versions.                                                    *)
(***************************************************************************)
\* Lines 29-35.
getUpdate(dep) ==
  IF isRemote(dep) THEN getRemoteUpdate(dep) ELSE getPackageUpdate(dep)

\* The version texts a registry may list for the package.
ListedPool == {"1.0.0", "1.1.0-rc", "1.1.0", "2.0.0-rc", "next"}
\* The constraints of the dependency looked up; "" is no constraint.
LookupConstraints ==
  {"", "1.0.0", "^1.0.0", "~1.0.0", "^1.1.0-rc", "2.0.0-rc", "^2.0.0", "latest"}

UpdateRegistries ==
  {[versions |-> [a |-> listed], yanked |-> [a |-> yanked], down |-> down,
    redirect |-> <<>>] :
     listed \in SUBSET ListedPool, yanked \in SUBSET ListedPool,
     down \in {NoneDown, Down("meta", "a")}}

\* The URLs an origin redirects the HEAD request to; <<>> is no redirect.
Redirects ==
  {<<>>} \cup
  {<<"https", ":", "/", "/", "x.land", "/", "m", "@", version, "/", "mod.ts">> :
     version \in {"1.0.0", "1.1.0", "2.0.0-rc", "v2"}}
Origins ==
  {[versions |-> EmptyRecord, yanked |-> EmptyRecord, down |-> NoneDown,
    redirect |-> redirect] : redirect \in Redirects}

\* The dependencies looked up: a package, or a remote module.
Lookups ==
  {Dependency(kind, "a", constraint, "") :
     kind \in {"jsr", "npm"}, constraint \in LookupConstraints}
  \cup {Dependency(kind, "x.land/m", "1.0.0", path) :
          kind \in {"http", "https"}, path \in {"", "/mod.ts"}}

InitUpdate ==
  /\ lookup \in [dependency : Lookups, pc : {"start"}, result : {Throw}]
  /\ registry \in IF isRemote(lookup.dependency) THEN Origins
                  ELSE {r \in UpdateRegistries : r.yanked.a \subseteq r.versions.a}
  /\ call = EmptyRecord
  /\ lockfile = EmptyRecord
  /\ stack = <<>>
  /\ cpc = "idle"
  /\ fetched = <<>>
  /\ runs = <<>>
  /\ MergeIdle
  /\ IncreaseIdle
  /\ app = EmptyRecord

GetUpdate ==
  /\ lookup.pc = "start"
  /\ lookup' = [lookup EXCEPT !.pc = "done", !.result = getUpdate(lookup.dependency)]
  /\ UNCHANGED <<inc, app>>

NextUpdate == GetUpdate /\ UNCHANGED <<mvars, lvars>>

SpecUpdate == InitUpdate /\ [][NextUpdate]_vars

(***************************************************************************)
(* parse and stringify (src/unnamed/part_001), applied to specifiers of    *)
(* every kind: with and without a leading slash, a scope, a constraint, a  *)
(* path and a search part.                                                 *)
(***************************************************************************)
Prefixes(kind) ==
  IF kind \in {"jsr", "npm"} THEN {<<>>, <<"/">>}
  ELSE {<<"/", "/", "x.land", "/">>}
Names == {<<"a">>, <<"@", "std", "/", "fs">>}
ConstraintParts == {<<>>, <<"@", "1.0.0">>, <<"@", "^0.222.0">>}
PathParts == {<<>>, <<"/", "exists">>, <<"/", "x", "@", "2">>}
SearchParts == {<<>>, <<"?", "q">>}
SpecifierTexts ==
  UNION {{<<kind, ":">> \o prefix \o name \o constraint \o path \o search :
            prefix \in Prefixes(kind), name \in Names,
            constraint \in ConstraintParts, path \in PathParts,
            search \in SearchParts} :
         kind \in {"jsr", "npm", "http", "https", "file"}}

InitParse ==
  /\ app \in [specifier : SpecifierTexts, pc : {"start"},
              result : {ParseError}, text : {""}]
  /\ lookup = EmptyRecord
  /\ MergeIdle
  /\ LockIdle
  /\ IncreaseIdle

\* stringify(parse(specifier)), as the tests of stringify apply them
\* (src/core/refs.ts:268-276).
Parse ==
  /\ app.pc = "start"
  /\ LET parsed == parse(app.specifier)
     IN app' = [app EXCEPT !.pc = "done", !.result = parsed,
                           !.text = IF parsed.ok
                                    THEN stringify(parsed.value, AllComps)
                                    ELSE ""]
  /\ UNCHANGED <<inc, lookup>>

NextParse == Parse /\ UNCHANGED <<mvars, lvars>>

SpecParse == InitParse /\ [][NextParse]_vars

(***************************************************************************)
(* identify and identical (src/core/dependencies.ts:506-530), applied to   *)
(* two dependencies.                                                       *)
(***************************************************************************)
\* An identifier that keeps the constraint.
identifyWithConstraint(dep) == stringify(dep, AllComps)
identify(dep) ==
  IF isRemote(dep) THEN stringify(dep, {"kind", "name", "path"})
  ELSE stringify(dep, {"kind", "name"})

identical(a, b) == identify(a) = identify(b)

Dependencies ==
  {Dependency(kind, name, constraint, path) :
     kind \in {"jsr", "npm", "http", "https"},
     name \in {"a", "x.land/m", "x.land/m/mod.ts"},
     constraint \in {"1.0.0", "^1.0.0"},
     path \in {"", "/mod.ts"}}

InitIdentity ==
  /\ app \in [a : Dependencies, b : Dependencies, pc : {"start"},
              result : {FALSE}, ids : {<<"", "">>}]
  /\ lookup = EmptyRecord
  /\ MergeIdle
  /\ LockIdle
  /\ IncreaseIdle

Identical ==
  /\ app.pc = "start"
  /\ app' = [app EXCEPT !.pc = "done", !.result = identical(app.a, app.b),
                        !.ids = <<identify(app.a), identify(app.b)>>]
  /\ UNCHANGED <<inc, lookup>>

NextIdentity == Identical /\ UNCHANGED <<mvars, lvars>>

SpecIdentity == InitIdentity /\ [][NextIdentity]_vars

(***************************************************************************)
(* extract (src/unnamed/part_010:312-334) for a jsr or npm package.        *)
(* Lockfile.copy and Lockfile.setWorkspaceConfig are deno_lockfile's       *)
(* (./deno_lockfile/js/mod.ts): the workspace is constrained to the given  *)
(* dependencies, and the packages and specifiers that stay are the ones    *)
(* reachable from them.                                                    *)
(***************************************************************************)
\* The packages a lockfile may hold, each locked at one version.
LockedPool == {Dependency("jsr", name, "1.0.0", "") : name \in {"a", "b", "c"}}
RequirementOf(locked) == stringify([locked EXCEPT !.constraint = "^1.0.0"], AllComps)
\* The key of the package record an identifier ("jsr:a@1.0.0") names.
PackageKey(identifier) ==
  stringify(CHOOSE d \in LockedPool : stringify(d, AllComps) = identifier,
            {"name", "constraint"})

Members(seq) == {seq[i] : i \in DOMAIN seq}
ResolvedKeys(lock, requirements) ==
  {PackageKey(lock.specifiers[r]) : r \in requirements \cap Keys(lock.specifiers)}
RECURSIVE Reachable(_, _)
Reachable(lock, keys) ==
  LET held == keys \cap Keys(lock.packages)
      next == held \cup ResolvedKeys(lock, UNION {lock.packages[k].dependencies : k \in held})
  IN IF next = keys THEN keys ELSE Reachable(lock, next)

setWorkspaceConfig(lock, dependencies) ==
  LET needed == Reachable(lock, ResolvedKeys(lock, Members(dependencies)))
      asked == Members(dependencies)
                 \cup UNION {lock.packages[k].dependencies : k \in needed}
  IN [lock EXCEPT !.workspace = dependencies,
                  !.specifiers = [r \in Keys(lock.specifiers) \cap asked |->
                                    lock.specifiers[r]],
                  !.packages = [k \in needed |-> lock.packages[k]]]

\* Lines 321-334.  The fragment, and the handle passed in as the call
\* leaves it.
extractPackageInPlace(dependency, lock) ==
  LET name == stringify(dependency, {"kind", "name", "constraint"})
      changed == setWorkspaceConfig(lock, <<name>>)
  IN [fragment |-> [changed EXCEPT !.remote = EmptyRecord], lockfile |-> changed]
extractPackage(dependency, lock) ==
  LET name == stringify(dependency, {"kind", "name", "constraint"})
      \* We must copy the lockfile to avoid mutating the original.
      copy == setWorkspaceConfig(lock, <<name>>)
  IN [fragment |-> [copy EXCEPT !.version = "3", !.remote = EmptyRecord],
      lockfile |-> lock]

\* The lockfiles explored: packages depending on one another, all needed by
\* the workspace dependencies, and the hash of a remote module.
LockEdges == {<<"a", "b">>, <<"a", "c">>, <<"b", "c">>, <<"c", "b">>}
LockOf(held, edges, workspace) ==
  [version |-> "3",
   specifiers |-> [r \in {RequirementOf(d) : d \in held} |->
                     stringify(CHOOSE d \in held : RequirementOf(d) = r, AllComps)],
   packages |-> [k \in {stringify(d, {"name", "constraint"}) : d \in held} |->
                   LET d == CHOOSE d \in held : stringify(d, {"name", "constraint"}) = k
                   IN [integrity |-> checksum(d.name),
                       dependencies |->
                         {RequirementOf(e) : e \in {e \in held : <<d.name, e.name>> \in edges}}]],
   remote |-> [u \in {"https://x.land/m@1.0.0/mod.ts"} |-> "hash"],
   workspace |-> workspace]
Lockfiles ==
  {lock \in {LockOf(held, edges, workspace) :
               held \in SUBSET LockedPool, edges \in SUBSET LockEdges,
               workspace \in {<<RequirementOf(d)>> : d \in LockedPool}
                 \cup {<<RequirementOf(pair[1]), RequirementOf(pair[2])>> :
                         pair \in {p \in LockedPool \X LockedPool : p[1] # p[2]}}} :
     /\ Members(lock.workspace) \subseteq Keys(lock.specifiers)
     /\ Keys(lock.packages)
          = Reachable(lock, ResolvedKeys(lock, Members(lock.workspace)))}

InitExtract ==
  /\ \E lock \in Lockfiles, d \in LockedPool, path \in {"", "/x"} :
       /\ RequirementOf(d) \in Keys(lock.specifiers)
       /\ app = [dependency |-> Dependency("jsr", d.name, "^1.0.0", path),
                 lockfile |-> lock, pc |-> "start",
                 result |-> parseFromJson(<<>>), after |-> lock]
  /\ lookup = EmptyRecord
  /\ MergeIdle
  /\ LockIdle
  /\ IncreaseIdle

Extract ==
  /\ app.pc = "start"
  /\ LET extracted == extractPackage(app.dependency, app.lockfile)
     IN app' = [app EXCEPT !.pc = "done", !.result = extracted.fragment,
                           !.after = extracted.lockfile]
  /\ UNCHANGED <<inc, lookup>>

NextExtract == Extract /\ UNCHANGED <<mvars, lvars>>

SpecExtract == InitExtract /\ [][NextExtract]_vars

(***************************************************************************)
(* Properties of createLock.                                               *)
(***************************************************************************)
Returned == cpc = "returned"
PackageCall == ~isRemote(call.dependency)
\* The resolved identifier a call of insertPackage is for.
ResolvedOf(frame) == stringify(Identifier(frame), AllComps)
Nested(i, j) ==
  /\ i < j
  /\ stack[i].pc # "modules"
  /\ ResolvedOf(stack[i]) = ResolvedOf(stack[j])

\* The calls that are not followed (InsertDependency, MaxDepth) are nested
\* in a call for the same resolved identifier.
DepthOnlyByNesting ==
  Len(stack) = MaxDepth => \E i, j \in DOMAIN stack : Nested(i, j)

\* C7: createLock terminates, on a cyclic or diamond-shaped dependency
\* graph too.  The registry is fixed during a call, so that a call of
\* insertPackage nested in a call for the same resolved identifier repeats
\* the outer call, nested call included, without end: createLock returns or
\* fails exactly if no call of insertPackage is ever nested in a call for
\* the same resolved identifier.
C7_NoNestedInsert == \A i, j \in DOMAIN stack : ~Nested(i, j)

\* C8: during a call of createLock, no resolved package is fetched and
\* inserted more than once.
C8_FetchedOnce ==
  PackageCall => \A i, j \in DOMAIN fetched : i # j => fetched[i] # fetched[j]

\* C9: a fragment createLock returns holds no record made from a failed
\* fetch: no integrity or hash is the checksum of the body of a non-OK
\* response.
C9_NoRecordOfFailedFetch ==
  Returned =>
    /\ \A key \in Keys(lockfile.packages) :
         lockfile.packages[key].integrity # checksum(ErrorBody)
    /\ \A url \in Keys(lockfile.remote) : lockfile.remote[url] # checksum(ErrorBody)

\* The version is the highest the registry has that satisfies the constraint.
IsHighest(version, dep) ==
  LET range == tryParseRange(dep.constraint)
      ok(v) == range # NoRange /\ satisfies(tryParse(v), range)
  IN /\ version \in registry.versions[dep.name]
     /\ ok(version)
     /\ \A w \in registry.versions[dep.name] :
          ok(w) => compare(tryParse(w), tryParse(version)) <= 0
At(dep, version) == [dep EXCEPT !.constraint = version]
\* The edge's requirement string, without its path, is mapped to the highest
\* version satisfying it, and that version of the child is locked.
EdgeFloats(edge) ==
  LET child == WithoutPath(edge) IN
  \E v \in registry.versions[child.name] :
    /\ IsHighest(v, child)
    /\ stringify(child, AllComps) \in Keys(lockfile.specifiers)
    /\ lockfile.specifiers[stringify(child, AllComps)] = stringify(At(child, v), AllComps)
    /\ stringify(At(child, v), {"name", "constraint"}) \in Keys(lockfile.packages)
\* The edges the registry declares for the packages the fragment locks.
Locked(name, version) == (name \o "@" \o version) \in Keys(lockfile.packages)
EdgesOfClosure ==
  {registry.dependencies[name][v][i] :
     <<name, v, i>> \in {<<name, v, i>> \in {"a", "b"} \X Versions \X (1..MaxEdges) :
                           /\ Locked(name, v)
                           /\ i \in DOMAIN registry.dependencies[name][v]}}
  \cup {Dependency("npm", registry.info["n"][v][i][1], registry.info["n"][v][i][2], "") :
          <<v, i>> \in {<<v, i>> \in Published["n"] \X (1..MaxEdges) :
                          /\ Locked("n", v)
                          /\ i \in DOMAIN registry.info["n"][v]}}
Root == WithoutPath(call.dependency)
RootMapped ==
  /\ stringify(Root, AllComps) \in Keys(lockfile.specifiers)
  /\ lockfile.specifiers[stringify(Root, AllComps)] = stringify(At(Root, call.target), AllComps)
\* C10: in a fragment createLock returns, every edge of the closure floats
\* and the root is mapped to the caller's target.
C10_ChildrenFloatRootTarget ==
  (Returned /\ PackageCall) =>
    /\ \A edge \in EdgesOfClosure : EdgeFloats(edge)
    /\ RootMapped

\* C11: the fragment createLock returns for a remote dependency holds the
\* hashes of the modules of the graph of the URL at the target version: the
\* keys of its remote map are those modules.
C11_RemoteKeysOfTarget ==
  (Returned /\ isRemote(call.dependency)) =>
    Keys(lockfile.remote) =
      {registry.graph[call.target][i] : i \in DOMAIN registry.graph[call.target]}

(***************************************************************************)
(* Properties of two calls of createLock.                                  *)
(***************************************************************************)
Ended == cpc \in {"returned", "failed"}
Again == runs # <<>> /\ runs[1].call = call

Done == inc.pc = "done"
TheRange == tryParseRange(inc.constraint)
TheTarget == tryParse(inc.version)
Satisfied ==
  TheRange # NoRange /\ TheTarget # NoSemVer /\ satisfies(TheTarget, TheRange)
\* The constraint as it is written, when it is one comparator.
OneWritten ==
  /\ inc.constraint \in RangeTexts
  /\ Len(WrittenOf[inc.constraint]) = 1
  /\ Len(WrittenOf[inc.constraint][1]) = 1
TheWritten == WrittenOf[inc.constraint][1][1]
WrittenWith(operators) == OneWritten /\ TheWritten.operator \in operators
\* major.minor.patch are all written, as numbers.
FullyQualified ==
  OneWritten /\ TheWritten.major >= 0 /\ TheWritten.minor >= 0 /\ TheWritten.patch >= 0

\* The version is written M.m.p, without prerelease or build.
Plain == TheTarget # NoSemVer /\ TheTarget.prerelease = "" /\ TheTarget.build = ""

\* C13: for a constraint that parses to one comparator set and a version
\* that satisfies it, increase returns the constraint itself, whatever its
\* shape.
C13_IdentityOnSatisfied ==
  (Done /\ Satisfied /\ Len(TheRange) = 1) => inc.result = Return(inc.constraint)

\* A satisfied caret constraint whose truncated form would be another text.
C13_Witness ==
  /\ Done
  /\ Satisfied
  /\ inc.constraint = "^1.1.0"
  /\ inc.version = "1.2.0"
  /\ inc.result = Return("^1.1.0")

\* C14: for a fully qualified exact, tilde or caret constraint and a release
\* version, the constraint increase returns is satisfied by the version.
C14_AdmitsTarget ==
  (Done /\ FullyQualified /\ WrittenWith({"", "^", "~"})
        /\ TheTarget # NoSemVer /\ TheTarget.prerelease = "") =>
    /\ inc.result.ok
    /\ tryParseRange(inc.result.value) # NoRange
    /\ satisfies(TheTarget, tryParseRange(inc.result.value))

\* A caret constraint on 0.x raised to a version it did not admit.
C14_Witness ==
  /\ Done
  /\ inc.constraint = "^0.2.1"
  /\ inc.version = "0.1.2"
  /\ inc.result.ok
  /\ inc.result.value # inc.constraint
  /\ satisfies(TheTarget, tryParseRange(inc.result.value))

\* C15: for a caret constraint and a version M.m.p that does not satisfy it,
\* increase returns ^M.0.0 if M is not 0, else ^0.m.0 if m is not 0, else
\* ^0.0.p.
C15_CaretTruncation ==
  (Done /\ WrittenWith({"^"}) /\ Plain /\ ~Satisfied) =>
    inc.result =
      Return(IF TheTarget.major # 0
             THEN "^" \o NumberText(TheTarget.major) \o ".0.0"
             ELSE IF TheTarget.minor # 0
             THEN "^0." \o NumberText(TheTarget.minor) \o ".0"
             ELSE "^0.0." \o NumberText(TheTarget.patch))

\* increase("^1.1.0", "2.1.0") is "^2.0.0".
C15_Witness ==
  /\ Done
  /\ inc.constraint = "^1.1.0"
  /\ inc.version = "2.1.0"
  /\ inc.result = Return("^2.0.0")

\* C16: for a tilde constraint and a version M.m.p that does not satisfy it,
\* increase returns ~M.m.0 if M is not 0, and ~0.m.p if M is 0.
C16_TildeTruncation ==
  (Done /\ WrittenWith({"~"}) /\ Plain /\ ~Satisfied) =>
    inc.result =
      Return(IF TheTarget.major # 0
             THEN "~" \o NumberText(TheTarget.major) \o "."
                  \o NumberText(TheTarget.minor) \o ".0"
             ELSE "~0." \o NumberText(TheTarget.minor) \o "."
                  \o NumberText(TheTarget.patch))

\* increase("~1.0.0", "2.1.1") is "~2.1.0".
C16_Witness ==
  /\ Done
  /\ inc.constraint = "~1.0.0"
  /\ inc.version = "2.1.1"
  /\ inc.result = Return("~2.1.0")

\* The constraint is a bare version: a version text, without an operator.
BareVersion == tryParse(inc.constraint) # NoSemVer

\* C17, as stated: for a constraint that is a bare version and any version
\* whose text is different from it, increase returns the version verbatim.
C17_ExactTracksTarget ==
  (Done /\ BareVersion /\ TheTarget # NoSemVer /\ inc.version # inc.constraint) =>
    inc.result = Return(inc.version)

\* C17, amended: for a constraint that is a bare version and any version that
\* differs from it in its numbers or its prerelease, increase returns the
\* version verbatim.
C17_ExactTracksUnequalTarget ==
  (Done /\ BareVersion /\ TheTarget # NoSemVer
        /\ compare(TheTarget, tryParse(inc.constraint)) # 0) =>
    inc.result = Return(inc.version)

\* A bare version replaced by a higher version with build metadata.
C17_Witness ==
  /\ Done
  /\ inc.constraint = "1.0.0"
  /\ inc.version = "1.1.0+b"
  /\ inc.result = Return("1.1.0+b")

\* The one comparator set of the range is a bare equality, or the constraint
\* is a caret or tilde range with a lower bound ">=" and an upper bound "<".
Supported ==
  \/ /\ Len(TheRange[1]) = 1
     /\ TheRange[1][1].operator = ""
  \/ /\ inc.constraint \in RangeTexts
     /\ WrittenOf[inc.constraint][1][1].operator \in {"^", "~"}
     /\ \E i \in DOMAIN TheRange[1] : TheRange[1][i].operator = ">="
     /\ \E i \in DOMAIN TheRange[1] : TheRange[1][i].operator = "<"

Found == lookup.pc = "done" /\ lookup.result.ok /\ lookup.result.value.defined
TheUpdate == lookup.result.value
AllThree ==
  Found /\ TheUpdate.latest # "" /\ TheUpdate.released # "" /\ TheUpdate.constrainted # ""
NotAbove(lower, higher) == compare(tryParse(lower), tryParse(higher)) <= 0

\* C19, as stated: when getUpdate returns latest, released and the
\* constraint-satisfying version, satisfying <= released <= latest in the
\* order of semantic versions.
C19_Ordered ==
  AllThree =>
    /\ NotAbove(TheUpdate.constrainted, TheUpdate.released)
    /\ NotAbove(TheUpdate.released, TheUpdate.latest)

\* C19, amended: released <= latest and satisfying <= latest; satisfying <=
\* released when the satisfying version is not a prerelease.
C19_OrderedBelowLatest ==
  AllThree =>
    /\ NotAbove(TheUpdate.released, TheUpdate.latest)
    /\ NotAbove(TheUpdate.constrainted, TheUpdate.latest)
    /\ tryParse(TheUpdate.constrainted).prerelease = "" =>
         NotAbove(TheUpdate.constrainted, TheUpdate.released)

\* All three are returned, and the satisfying version is a prerelease above
\* the highest release.
C19_Witness ==
  /\ AllThree
  /\ tryParse(TheUpdate.constrainted).prerelease # ""
  /\ ~NotAbove(TheUpdate.constrainted, TheUpdate.released)
  /\ NotAbove(TheUpdate.constrainted, TheUpdate.latest)

\* The versions the registry lists that count: parseable and, for jsr, not
\* yanked.
Counted ==
  LET name == lookup.dependency.name
      listed == IF lookup.dependency.kind = "jsr"
                THEN registry.versions[name] \ registry.yanked[name]
                ELSE registry.versions[name]
  IN {tryParse(v) : v \in {w \in listed : tryParse(w) # NoSemVer}}
\* The text is the format of the maximum of the versions; "" when there is
\* none.
IsMaxOf(text, semvers) ==
  IF semvers = {} THEN text = ""
  ELSE /\ tryParse(text) \in semvers
       /\ format(tryParse(text)) = text
       /\ \A w \in semvers : compare(w, tryParse(text)) <= 0
Matching ==
  IF tryParseRange(lookup.dependency.constraint) = NoRange THEN {}
  ELSE {v \in Counted : satisfies(v, tryParseRange(lookup.dependency.constraint))}

\* C20: for a jsr or npm dependency, latest is the maximum of the parseable
\* versions the registry lists, released the maximum of those that are not
\* prereleases and satisfying the maximum of those matching the constraint;
\* for jsr the yanked versions are left out of all three, and texts that do
\* not parse are skipped.
C20_ResolutionResult ==
  (Found /\ ~isRemote(lookup.dependency)) =>
    /\ IsMaxOf(TheUpdate.latest, Counted)
    /\ IsMaxOf(TheUpdate.released, {v \in Counted : v.prerelease = ""})
    /\ IsMaxOf(TheUpdate.constrainted, Matching)

\* A jsr package whose highest version is yanked and that lists a prerelease
\* and a text that is not a version.
C20_Witness ==
  /\ Found
  /\ lookup.dependency.kind = "jsr"
  /\ registry.versions.a = {"1.0.0", "1.1.0", "2.0.0-rc", "next"}
  /\ registry.yanked.a = {"1.1.0"}
  /\ lookup.dependency.constraint = "^1.0.0"
  /\ TheUpdate.latest = "2.0.0-rc"
  /\ TheUpdate.released = "1.0.0"
  /\ TheUpdate.constrainted = "1.0.0"

\* C21: getUpdate for an http or https dependency whose origin answers the
\* HEAD request without redirecting returns an update whose version is the
\* dependency's current version; it neither fails nor returns nothing.
C21_NoRedirectKeepsVersion ==
  (lookup.pc = "done" /\ isRemote(lookup.dependency) /\ registry.redirect = <<>>) =>
    /\ lookup.result.ok
    /\ lookup.result.value.defined
    /\ lookup.result.value.latest = lookup.dependency.constraint

\* The identifiers and package keys that carry one version: the strings of
\* the packages explored at a text that parses as a semantic version.
Concrete(comps) ==
  {stringify(Dependency(kind, name, version, path), comps) :
     kind \in {"jsr", "npm"}, name \in {"a", "b", "n", "m"},
     version \in SemVerTexts, path \in {"", "/x", "/sub"}}

\* C27: in every fragment createLock returns for a package, every value of
\* the specifier map and every key of the package records carries one
\* concrete version, never a range, for the root and for every child.
C27_ResolvedAreConcrete ==
  (Returned /\ ~isRemote(call.dependency)) =>
    /\ \A r \in Keys(lockfile.specifiers) : lockfile.specifiers[r] \in Concrete(AllComps)
    /\ \A k \in Keys(lockfile.packages) : k \in Concrete({"name", "constraint"})

(***************************************************************************)
(* Properties of parse and stringify.                                      *)
(***************************************************************************)
Parsed == app.pc = "done" /\ app.result.ok
LeadingSlash(specifier) ==
  UrlBody(specifier) # <<>> /\ Head(UrlBody(specifier)) = "/"
HasSearch(specifier) == \E i \in DOMAIN specifier : specifier[i] = "?"

Written_(kind, prefix, name, constraint, path) ==
  app.specifier = <<kind, ":">> \o prefix \o name \o constraint \o path
\* The name a specifier of these parts has: host and path of a URL, the
\* package name without the leading slash otherwise.
NameOf(prefix, name) ==
  IF Len(prefix) > 1 THEN Concat(SubSeq(prefix, 3, Len(prefix))) \o Concat(name)
  ELSE Concat(name)
PlainPaths == {path \in PathParts : \A i \in DOMAIN path : path[i] # "@"}

C23_WitnessLeadingSlash ==
  /\ Parsed
  /\ Concat(app.specifier) = "jsr:/@std/fs@^0.222.0/exists"
  /\ app.result.value = Dependency("jsr", "@std/fs", "^0.222.0", "/exists")

\* C24: parse of a specifier without @constraint fails for jsr and npm, and
\* returns a dependency without a constraint for http and https.
C24_MissingConstraint ==
  app.pc = "done" =>
    \A kind \in {"jsr", "npm", "http", "https"}, name \in Names, path \in PlainPaths :
      \A prefix \in Prefixes(kind) :
        Written_(kind, prefix, name, <<>>, path) =>
          IF kind \in {"jsr", "npm"} THEN ~app.result.ok
          ELSE /\ app.result.ok
               /\ app.result.value =
                    Dependency(kind, NameOf(prefix, name), "", Concat(path))

(***************************************************************************)
(* Properties of identify and identical.                                   *)
(***************************************************************************)
Compared == app.pc = "done"
SameIds == app.ids[1] = app.ids[2]

Extracted == app.pc = "done"
Requirement == stringify(app.dependency, {"kind", "name", "constraint"})
\* The requirements and the package keys met on the paths of dependency
\* edges that start at the requirement.
RECURSIVE Walk(_, _)
Walk(requirements, steps) ==
  IF steps = 0 THEN requirements
  ELSE Walk(requirements \cup
              UNION {app.lockfile.packages[PackageKey(app.lockfile.specifiers[r])].dependencies :
                       r \in requirements},
            steps - 1)
ClosureRequirements == Walk({Requirement}, Cardinality(LockedPool))
ClosureKeys == {PackageKey(app.lockfile.specifiers[r]) : r \in ClosureRequirements}

\* C26: for a jsr or npm dependency of the lockfile, extract returns a
\* fragment whose specifier map and package records are exactly the entries
\* reachable from the requirement through dependency edges, with an empty
\* remote map and the requirement as the only workspace dependency; the
\* lockfile passed in is not modified.
C26_ExtractIsClosure ==
  Extracted =>
    /\ Keys(app.result.specifiers) = ClosureRequirements
    /\ \A r \in ClosureRequirements : app.result.specifiers[r] = app.lockfile.specifiers[r]
    /\ Keys(app.result.packages) = ClosureKeys
    /\ \A k \in ClosureKeys : app.result.packages[k] = app.lockfile.packages[k]
    /\ app.result.remote = EmptyRecord
    /\ app.result.workspace = <<Requirement>>
    /\ app.after = app.lockfile

\* The package "a" with its child "b" was extracted from a lockfile that
\* holds "c" for another workspace dependency.
C26_Witness ==
  /\ Extracted
  /\ app.dependency.name = "a"
  /\ app.dependency.path = "/x"
  /\ Keys(app.lockfile.packages) = {"a@1.0.0", "b@1.0.0", "c@1.0.0"}
  /\ Keys(app.result.packages) = {"a@1.0.0", "b@1.0.0"}
  /\ Keys(app.result.specifiers) = {"jsr:a@^1.0.0", "jsr:b@^1.0.0"}
  /\ app.lockfile.remote # EmptyRecord

(***************************************************************************)
(* Failures of increase.                                                   *)
(***************************************************************************)
\* C30: every failure inside increase (a constraint that does not parse, more
\* than one comparator set, a missing bound, an unreachable shape, a version
\* that does not parse) surfaces as one error whose message contains the
\* constraint; no assertion or parse exception escapes and no constraint is
\* returned.
C30_UniformFailure ==
  Done =>
    LET message == "Unexpected format of version constraint: " \o inc.constraint
        thrown == [ok |-> FALSE, value |-> message]
    IN /\ ~_increase(inc.constraint, inc.version).ok => inc.result = thrown
       /\ ~inc.result.ok => inc.result = thrown
       /\ (\/ tryParseRange(inc.constraint) = NoRange
           \/ tryParse(inc.version) = NoSemVer
           \/ Len(tryParseRange(inc.constraint)) # 1) => inc.result = thrown

\* A constraint that parses met a version that does not: the error names the
\* constraint.
C30_Witness ==
  /\ Done
  /\ inc.constraint = "^1.0.0"
  /\ inc.version = "latest"
  /\ inc.result = [ok |-> FALSE,
                   value |-> "Unexpected format of version constraint: ^1.0.0"]

====
